---------------------------- MODULE Spec2Model ----------------------------
(***************************************************************************)
(* Model of the site crawler of server/routes/seo-site-crawler.js and of   *)
(* the URL utilities of server/lib/url-utils.js it is built on.            *)
(*                                                                         *)
(* Strings the code inspects character by character (URL paths, robots.txt *)
(* rule paths, user-agent tokens) are sequences of one-character strings.  *)
(* A parsed URL is a record with the fields of the WHATWG URL object the   *)
(* code reads and writes (protocol, hostname, port, pathname, search as a  *)
(* list of key/value pairs, hash); url.href is that record once            *)
(* normalized.                                                             *)
(*                                                                         *)
(* A local of the code that is used several times is bound as a value      *)
(* (x \in {e}) rather than defined with LET, so that TLC evaluates e once   *)
(* where it evaluates ENABLED for the fairness condition.                  *)
(***************************************************************************)
EXTENDS Integers, Sequences, FiniteSets, TLC

VARIABLES
  body,            \* req.body of the POST being served
  site,            \* the web site crawled: robots.txt and one response per URL
  pc,              \* position of the route handler / crawl()
  config,          \* the config object the route handler passes to crawl()
  normalizedStart, \* crawl(): normalizedStart
  origin,          \* crawl(): origin
  robots,          \* crawl(): robots = { isAllowed (its rule list), content }
  visited,         \* crawl(): visited
  canonicalSeen,   \* crawl(): canonicalSeen
  queue,           \* crawl(): queue
  pages,           \* crawl(): pages
  errorCount,      \* crawl(): errorCount
  blockedCount,    \* crawl(): blockedCount
  duplicateCount,  \* crawl(): duplicateCount
  batch,           \* crawl(): batch of the current outer iteration
  tasks,           \* the async callbacks of batch.map(...), one per batch item
  response,        \* what res.json()/res.status().json() sent to the caller
  fetched,         \* history: the page URLs handed to fetchWithTimeout, in issue order
  dequeued,        \* history: every item queue.shift() returned, with what became of it
  pf               \* inputs and output of the pure functions checked on their own

vars == << body, site, pc, config, normalizedStart, origin, robots, visited,
           canonicalSeen, queue, pages, errorCount, blockedCount, duplicateCount,
           batch, tasks, response, fetched, dequeued, pf >>

-----------------------------------------------------------------------------
(* Strings as character sequences *)

\* String.prototype.toLowerCase on one character / one token of the model
Lower(c) ==
  CASE c = "A" -> "a"
    [] c = "D" -> "d"
    [] c = "S" -> "s"
    [] c = "NEWS.EXAMPLE" -> "news.example"
    [] c = "HTTPS:" -> "https:"
    [] c = "UTM_Source" -> "utm_source"
    [] c = "Page" -> "page"
    [] c = "User-agent:" -> "user-agent:"
    [] c = "User-Agent:" -> "user-agent:"
    [] c = "Disallow:" -> "disallow:"
    [] c = "Allow:" -> "allow:"
    [] c = "Sitemap:" -> "sitemap:"
    [] c = "SEO-Crawler" -> "seo-crawler"
    [] c = "Googlebot" -> "googlebot"
    [] c = "Mozilla/5.0 (compatible; " -> "mozilla/5.0 (compatible; "
    [] OTHER -> c

ToLowerCase(s) == [i \in DOMAIN s |-> Lower(s[i])]

\* String.prototype.startsWith
StartsWith(s, p) == Len(p) <= Len(s) /\ SubSeq(s, 1, Len(p)) = p

\* String.prototype.endsWith
EndsWith(s, p) == Len(p) <= Len(s) /\ SubSeq(s, Len(s) - Len(p) + 1, Len(s)) = p

\* String.prototype.includes
Includes(s, p) ==
  \E i \in 0..(Len(s) - Len(p)) : SubSeq(s, i + 1, i + Len(p)) = p

Digits == {"0", "1", "2", "3", "4", "5", "6", "7", "8", "9"}

-----------------------------------------------------------------------------
(* URLs *)

NULL == [protocol |-> "null"]

\* An absolute URL string, by its components as written
Abs(proto, host, port, path, search, hash) ==
  [rel |-> FALSE, protocol |-> proto, hostname |-> host, port |-> port,
   pathname |-> path, search |-> search, hash |-> hash]

\* An absolute-path reference ("/a?x=1#f")
Rel(path, search, hash) ==
  [rel |-> TRUE, protocol |-> "", hostname |-> "", port |-> "",
   pathname |-> path, search |-> search, hash |-> hash]

\* A string no URL parser accepts
Garbage == [rel |-> FALSE, protocol |-> "garbage", hostname |-> "", port |-> "",
            pathname |-> <<>>, search |-> <<>>, hash |-> ""]

Url(proto, host, port, path, search, hash) ==
  [protocol |-> proto, hostname |-> host, port |-> port,
   pathname |-> path, search |-> search, hash |-> hash]

DefaultPort(proto) ==
  CASE proto = "http:" -> "80" [] proto = "https:" -> "443" [] OTHER -> "none"

\* new URL(raw): the scheme and host are lowercased, a default port is dropped and
\* an empty path of an http(s) URL is "/"; throws (NULL) on garbage
ParseAbs(raw) ==
  IF raw.rel \/ raw.protocol = "garbage" THEN NULL
  ELSE CHOOSE url \in
         { Url(proto,
               IF http THEN Lower(raw.hostname) ELSE raw.hostname,
               IF raw.port = DefaultPort(proto) THEN "" ELSE raw.port,
               IF http /\ raw.pathname = <<>> THEN <<"/">> ELSE raw.pathname,
               raw.search, raw.hash)
           : proto \in {Lower(raw.protocol)},
             http \in {Lower(raw.protocol) \in {"http:", "https:"}} } : TRUE

\* new URL(raw, baseUrl): throws when the base does not parse; a relative
\* reference takes scheme, host and port from the base
ParseURL(raw, baseUrl) ==
  CHOOSE url \in
    { IF b = NULL THEN NULL
      ELSE IF raw.rel
        THEN Url(b.protocol, b.hostname, b.port,
                 IF raw.pathname = <<>> THEN <<"/">> ELSE raw.pathname,
                 raw.search, raw.hash)
        ELSE ParseAbs(raw)
      : b \in {ParseAbs(baseUrl)} } : TRUE

\* A normalized URL (a url.href) read back as the string it is
AsRaw(u) == Abs(u.protocol, u.hostname, u.port, u.pathname, u.search, u.hash)

\* url.origin
Origin(u) == [protocol |-> u.protocol, hostname |-> u.hostname, port |-> u.port]

STRIP_PARAMS ==
  {"utm_source", "utm_medium", "utm_campaign", "utm_term", "utm_content", "utm_id",
   "fbclid", "fb_action_ids", "fb_action_types", "fb_source", "fb_ref",
   "gclid", "gclsrc", "dclid", "gbraid", "wbraid",
   "msclkid",
   "hsa_cam", "hsa_grp", "hsa_mt", "hsa_src", "hsa_ad", "hsa_acc", "hsa_net",
   "hsa_ver", "hsa_la", "hsa_ol", "hsa_kw",
   "mc_cid", "mc_eid", "_ga", "_gl", "_ke", "ref", "ref_src",
   "sid", "sessionid", "session_id", "jsessionid", "phpsessid", "aspsessionid",
   "nocache", "_", "timestamp", "cb"}

\* normalizeUrl without the loop that deletes the tracking parameters
StripParams_None(search) == search

\* the for loop of normalizeUrl over [...url.searchParams.keys()]
StripParams(search) ==
  SelectSeq(search, LAMBDA kv : Lower(kv.k) \notin STRIP_PARAMS)

\* the order of the keys of the model under sort() (by code unit)
KeyRank(k) ==
  CASE k = "Page" -> 1 [] k = "UTM_Source" -> 2 [] k = "b" -> 3 [] k = "id" -> 4
    [] k = "page" -> 5 [] k = "sort" -> 6 [] k = "utm_source" -> 7 [] OTHER -> 8

RECURSIVE InsertSorted(_, _)
InsertSorted(kv, sorted) ==
  IF sorted = <<>> THEN <<kv>>
  ELSE IF KeyRank(kv.k) < KeyRank(Head(sorted).k)
    THEN <<kv>> \o sorted
    ELSE <<Head(sorted)>> \o InsertSorted(kv, Tail(sorted))

\* url.searchParams.sort(): stable, by key
RECURSIVE SortParams(_)
SortParams(search) ==
  IF search = <<>> THEN <<>>
  ELSE InsertSorted(search[Len(search)], SortParams(SubSeq(search, 1, Len(search) - 1)))

\* pathname.replace(/\/{2,}/, '/'), without the g flag: the first run only
RECURSIVE CollapseSlashes_Once(_)
CollapseSlashes_Once(p) ==
  IF Len(p) < 2 THEN p
  ELSE IF p[1] = "/" /\ p[2] = "/"
    THEN IF Len(p) > 2 /\ p[3] = "/"
           THEN CollapseSlashes_Once(Tail(p))
           ELSE Tail(p)
  ELSE <<p[1]>> \o CollapseSlashes_Once(Tail(p))

\* pathname.replace(/\/{2,}/g, '/')
RECURSIVE CollapseSlashes(_)
CollapseSlashes(p) ==
  IF Len(p) < 2 THEN p
  ELSE IF p[1] = "/" /\ p[2] = "/" THEN CollapseSlashes(Tail(p))
  ELSE <<p[1]>> \o CollapseSlashes(Tail(p))

StripTrailingSlash(p) ==
  IF Len(p) > 1 /\ p[Len(p)] = "/" THEN SubSeq(p, 1, Len(p) - 1) ELSE p

\* normalizeUrl without its protocol test
normalizeUrl_AnyScheme(raw, baseUrl) ==
  CHOOSE href \in
    { IF url = NULL THEN NULL
      ELSE Url(Lower(url.protocol), Lower(url.hostname),
               IF url.port = DefaultPort(Lower(url.protocol)) THEN "" ELSE url.port,
               StripTrailingSlash(CollapseSlashes(url.pathname)),
               SortParams(StripParams(url.search)), "")
      : url \in {ParseURL(raw, baseUrl)} } : TRUE

\* normalizeUrl(raw, baseUrl): the href, or NULL
normalizeUrl(raw, baseUrl) ==
  CHOOSE href \in
    { IF url = NULL THEN NULL
      ELSE IF url.protocol # "http:" /\ url.protocol # "https:" THEN NULL
      ELSE CHOOSE h \in
             { Url(Lower(url.protocol),
                   Lower(url.hostname),
                   IF url.port = DefaultPort(Lower(url.protocol)) THEN "" ELSE url.port,
                   StripTrailingSlash(pathname),
                   SortParams(search),
                   "")
               : pathname \in {CollapseSlashes(url.pathname)},
                 search \in {StripParams(url.search)} } : TRUE
      : url \in {ParseURL(raw, baseUrl)} } : TRUE

-----------------------------------------------------------------------------
(* Trap / pattern filter *)

\* url.href as the string the patterns are tested against.  Scheme, host, port,
\* query keys and query values are one token each; the path is its characters.
UrlString(u) ==
  LET RECURSIVE Query(_, _)
      Query(search, first) ==
        IF search = <<>> THEN <<>>
        ELSE << IF first THEN "?" ELSE "&", Head(search).k, "=", Head(search).v >>
             \o Query(Tail(search), FALSE)
  IN  << u.protocol, "//", u.hostname >>
      \o (IF u.port = "" THEN <<>> ELSE << ":", u.port >>)
      \o u.pathname \o Query(u.search, TRUE)

\* Query values of the model that start with a digit (\d)
DigitValues == {"1", "2", "5"}

\* DEFAULT_DENY_PATTERNS, each tested with the i flag (on the lowercased string).
\* Alternatives spelled with words no URL of the model contains are left out:
\* they can match none of them.
\* /\/(?:page|p)\/\d+/i
DenyPagePath(s) ==
  \E i \in 1..Len(s) :
    \/ /\ i + 6 <= Len(s)
       /\ SubSeq(s, i, i + 5) = << "/", "p", "a", "g", "e", "/" >>
       /\ s[i + 6] \in Digits
    \/ /\ i + 3 <= Len(s)
       /\ SubSeq(s, i, i + 2) = << "/", "p", "/" >>
       /\ s[i + 3] \in Digits

\* /[?&](?:page|p|pg|offset|start)=\d/i
DenyPageQuery(s) ==
  \E i \in 1..Len(s) :
    /\ i + 3 <= Len(s)
    /\ s[i] \in {"?", "&"}
    /\ s[i + 1] \in {"page", "p", "pg", "offset", "start"}
    /\ s[i + 2] = "="
    /\ s[i + 3] \in DigitValues

\* /\/(?:wp-admin|admin|administrator|cgi-bin)\//i
DenyAdminPath(s) ==
  Includes(s, << "/", "a", "d", "m", "i", "n", "/" >>)

\* /\.(pdf|zip|gz|...)$/i
DenyExtension(s) ==
  EndsWith(s, << ".", "p", "d", "f" >>)

\* /[?&](?:sort|order|filter|view|display|limit|lang|currency|size|color)=/i
DenySortQuery(s) ==
  \E i \in 1..Len(s) :
    /\ i + 2 <= Len(s)
    /\ s[i] \in {"?", "&"}
    /\ s[i + 1] \in {"sort", "order", "filter", "view", "display", "limit",
                     "lang", "currency", "size", "color"}
    /\ s[i + 2] = "="

DEFAULT_DENY_PATTERNS(urlString) ==
  \E s \in {ToLowerCase(urlString)} :
    \/ DenyPagePath(s)
    \/ DenyPageQuery(s)
    \/ DenyAdminPath(s)
    \/ DenyExtension(s)
    \/ DenySortQuery(s)

\* A caller pattern is the regex source "lit" or "^lit" of a literal lit;
\* new RegExp(p, 'i').test(urlString)
RegExpTest(p, urlString) ==
  IF p.anchored
    THEN StartsWith(ToLowerCase(urlString), ToLowerCase(p.lit))
    ELSE Includes(ToLowerCase(urlString), ToLowerCase(p.lit))

\* shouldDenyUrl where a match of the allow list lets the URL through
shouldDenyUrl_AllowExempts(urlString, denyPatterns, allowPatterns) ==
  \E u \in {urlString} :
    IF Len(allowPatterns) > 0
      THEN ~ \E i \in DOMAIN allowPatterns : RegExpTest(allowPatterns[i], u)
    ELSE IF \E i \in DOMAIN denyPatterns : RegExpTest(denyPatterns[i], u)
      THEN TRUE
    ELSE DEFAULT_DENY_PATTERNS(u)

shouldDenyUrl(urlString, denyPatterns, allowPatterns) ==
  \E u \in {urlString} :
    IF /\ Len(allowPatterns) > 0
       /\ ~ \E i \in DOMAIN allowPatterns : RegExpTest(allowPatterns[i], u)
      THEN TRUE
    ELSE IF \E i \in DOMAIN denyPatterns : RegExpTest(denyPatterns[i], u)
      THEN TRUE
    ELSE DEFAULT_DENY_PATTERNS(u)

-----------------------------------------------------------------------------
(* Robots gate *)

\* robots.txt is a list of trimmed lines; a line is its field (the text up to and
\* including the first ':', "" for a blank or comment line) and its trimmed value
\* (an agent token list for User-agent, a path for Disallow / Allow).
\* The for loop of parseRobotsTxt: the rules collected from lines[i..]
RECURSIVE ParseLines(_, _, _, _)
ParseLines(lines, i, capturing, ua) ==
  IF i > Len(lines) THEN <<>>
  ELSE LET line  == lines[i]
           lower == Lower(line.field)
       IN  IF lower = "user-agent:"
             THEN LET agent == ToLowerCase(line.value)
                  IN  ParseLines(lines, i + 1,
                                 agent = <<"*">> \/ agent = ua \/ Includes(ua, agent),
                                 ua)
           ELSE IF ~capturing THEN ParseLines(lines, i + 1, capturing, ua)
           ELSE IF lower = "disallow:" /\ line.value # <<>>
             THEN << [type |-> "disallow", path |-> line.value] >>
                  \o ParseLines(lines, i + 1, capturing, ua)
           ELSE IF lower = "allow:" /\ line.value # <<>>
             THEN << [type |-> "allow", path |-> line.value] >>
                  \o ParseLines(lines, i + 1, capturing, ua)
           ELSE ParseLines(lines, i + 1, capturing, ua)

\* parseRobotsTxt with let capturing = true
parseRobotsTxt_CapturingFirst(robotsTxt, userAgent) ==
  ParseLines(robotsTxt, 1, TRUE, ToLowerCase(userAgent))

\* parseRobotsTxt(robotsTxt, userAgent): the rule list its closure holds
parseRobotsTxt(robotsTxt, userAgent) ==
  ParseLines(robotsTxt, 1, FALSE, ToLowerCase(userAgent))

\* the for loop of isAllowed with >= in place of >: the last longest match wins
RECURSIVE BestMatch_LastWins(_, _, _, _)
BestMatch_LastWins(rules, i, bestMatch, urlPath) ==
  IF i > Len(rules) THEN bestMatch
  ELSE IF StartsWith(urlPath, rules[i].path) /\ Len(rules[i].path) >= bestMatch.length
    THEN BestMatch_LastWins(rules, i + 1,
                   [type |-> rules[i].type, length |-> Len(rules[i].path)], urlPath)
    ELSE BestMatch_LastWins(rules, i + 1, bestMatch, urlPath)

\* the for loop of isAllowed over rules[i..], from bestMatch
RECURSIVE BestMatch(_, _, _, _)
BestMatch(rules, i, bestMatch, urlPath) ==
  IF i > Len(rules) THEN bestMatch
  ELSE IF StartsWith(urlPath, rules[i].path) /\ Len(rules[i].path) > bestMatch.length
    THEN BestMatch(rules, i + 1,
                   [type |-> rules[i].type, length |-> Len(rules[i].path)], urlPath)
    ELSE BestMatch(rules, i + 1, bestMatch, urlPath)

\* isAllowed(urlPath) of the closure parseRobotsTxt returns over rules
isAllowed(rules, urlPath) ==
  BestMatch(rules, 1, [type |-> "allow", length |-> 0], urlPath).type = "allow"

\* robots.isAllowed(urlPath): the parsed gate, or () => true
RobotsIsAllowed(rb, urlPath) ==
  IF rb.allowAll THEN TRUE ELSE isAllowed(rb.rules, urlPath)

\* loadRobotsTxt failing closed: a robots.txt that cannot be had disallows "/"
loadRobotsTxt_FailClosed(r, userAgent) ==
  IF r.kind = "ok"
    THEN [allowAll |-> FALSE, rules |-> parseRobotsTxt(r.lines, userAgent),
          content |-> IF r.lines = <<>> THEN "" ELSE "text"]
    ELSE [allowAll |-> FALSE, rules |-> << [type |-> "disallow", path |-> << "/" >>] >>,
          content |-> "null"]

\* loadRobotsTxt, once the fetch of robots.txt has settled with outcome r
loadRobotsTxt(r, userAgent) ==
  IF r.kind = "ok"
    THEN [allowAll |-> FALSE, rules |-> parseRobotsTxt(r.lines, userAgent),
          content |-> IF r.lines = <<>> THEN "" ELSE "text"]
    ELSE [allowAll |-> TRUE, rules |-> <<>>, content |-> "null"]

-----------------------------------------------------------------------------
(* Link extractor and canonical tracker *)

\* An HTML document is what the two regexes see of it: the values of its href
\* attributes in document order (hrefs; the href of a <link rel="canonical"> is
\* one of them) and the index in hrefs of the first <link rel="canonical">
\* (canonical; 0 when there is none).

\* the loop adding every link that normalizes, whatever its origin
RECURSIVE LinkSet_AnyOrigin(_, _, _, _, _)
LinkSet_AnyOrigin(hrefs, i, baseUrl, org, links) ==
  IF i > Len(hrefs) THEN links
  ELSE CHOOSE result \in
    { IF \/ raw.hash # ""
         \/ raw.protocol \in {"javascript:", "mailto:", "tel:"}
         \/ normalized = NULL
         \/ \E j \in DOMAIN links : links[j] = normalized
        THEN LinkSet_AnyOrigin(hrefs, i + 1, baseUrl, org, links)
        ELSE LinkSet_AnyOrigin(hrefs, i + 1, baseUrl, org, Append(links, normalized))
      : raw \in {hrefs[i]},
        normalized \in {normalizeUrl(hrefs[i], AsRaw(baseUrl))} } : TRUE

\* Array.from(links): the Set of the loop over hrefs[i..], in insertion order
RECURSIVE LinkSet(_, _, _, _, _)
LinkSet(hrefs, i, baseUrl, org, links) ==
  IF i > Len(hrefs) THEN links
  ELSE CHOOSE result \in
    { IF \/ raw.hash # ""          \* [^"'#]+ : the regex skips an href with a '#'
         \/ raw.protocol \in {"javascript:", "mailto:", "tel:"}
         \/ normalized = NULL
         \/ Origin(normalized) # org
         \/ \E j \in DOMAIN links : links[j] = normalized
        THEN LinkSet(hrefs, i + 1, baseUrl, org, links)
        ELSE LinkSet(hrefs, i + 1, baseUrl, org, Append(links, normalized))
      : raw \in {hrefs[i]},
        normalized \in {normalizeUrl(hrefs[i], AsRaw(baseUrl))} } : TRUE

extractInternalLinks(html, baseUrl, org) ==
  LinkSet(html.hrefs, 1, baseUrl, org, <<>>)

extractCanonical(html, baseUrl) ==
  IF html.canonical = 0 THEN NULL
  ELSE normalizeUrl(html.hrefs[html.canonical], AsRaw(baseUrl))

-----------------------------------------------------------------------------
(* The requests and the web sites of the model *)

\* DEFAULTS
DefaultMaxPages == 50
DefaultMaxDepth == 10
DefaultConcurrency == 3
DefaultTimeout == 15000
maxQueueSize == 10000
DefaultUserAgent == << "Mozilla/5.0 (compatible; ", "SEO-Crawler", "/1.0)" >>

\* Bounds of the request bodies drawn
MaxPagesIn == 3
MaxDepthIn == 2
MaxConcurrencyIn == 2

pRoot == << "/" >>
pA == << "/", "a" >>
pASlash == << "/", "a", "/" >>
pB == << "/", "b" >>
pC == << "/", "c" >>
pD == << "/", "d" >>
pAdmin == << "/", "a", "d", "m", "i", "n" >>
pAdminSecret == << "/", "a", "d", "m", "i", "n", "/", "s", "e", "c", "r", "e", "t" >>
pPage2 == << "/", "p", "a", "g", "e", "/", "2" >>

\* https://news.example<path>
U(path) == Url("https:", "news.example", "", path, <<>>, "")

Html(hrefs, canonical) ==
  [kind |-> "html", status |-> 200, hrefs |-> hrefs, canonical |-> canonical]

Failing(kind, status) ==
  [kind |-> kind, status |-> status, hrefs |-> <<>>, canonical |-> 0]

\* The scenario of the spec's testable properties, grown by two levels; /b
\* declares /c its canonical and /c declares itself
PagesNews ==
  ( U(pRoot) :> Html(<< Rel(pA, <<>>, ""), Rel(pB, <<>>, ""),
                       Rel(pAdminSecret, <<>>, ""),
                       Rel(pA, << [k |-> "utm_source", v |-> "x"] >>, "") >>, 0)
  @@ U(pA) :> Html(<< Rel(pC, <<>>, ""), Rel(pB, <<>>, ""),
                      Abs("https:", "other.example", "", pRoot, <<>>, ""),
                      Rel(pPage2, <<>>, "") >>, 0)
  @@ U(pB) :> Html(<< Rel(pC, <<>>, ""),
                      Abs("mailto:", "", "", << "x" >>, <<>>, ""),
                      Rel(pD, <<>>, "top") >>, 1)
  @@ U(pC) :> Html(<< Rel(pD, <<>>, ""), Rel(pRoot, <<>>, ""), Rel(pC, <<>>, "") >>, 3)
  @@ U(pD) :> Failing("http_error", 500) )

\* Two pages of one batch declaring the same canonical, and failing fetches
PagesCanonical ==
  ( U(pRoot) :> Html(<< Rel(pRoot, <<>>, ""), Rel(pA, <<>>, ""), Rel(pASlash, <<>>, ""),
                       Abs("HTTPS:", "NEWS.EXAMPLE", "443", pB, <<>>, "") >>, 1)
  @@ U(pA) :> Html(<< Rel(pC, <<>>, ""), Rel(pD, <<>>, ""), Rel(pB, <<>>, "") >>, 1)
  @@ U(pB) :> Html(<< Rel(pC, <<>>, ""), Rel(pAdmin, <<>>, "") >>, 1)
  @@ U(pC) :> Failing("timeout", 0)
  @@ U(pD) :> Failing("non_html", 200)
  @@ U(pAdmin) :> Failing("body_error", 200) )

SitePages == { PagesNews, PagesCanonical }

\* fetch(url) of a page: the site's response, 404 for a URL it does not serve
PageResponse(p, url) ==
  IF url \in DOMAIN p THEN p[url] ELSE Failing("http_error", 404)

RobotsLine(field, value) == [field |-> field, value |-> value]

\* What the fetch of /robots.txt may settle with
RobotsResponses ==
  { [kind |-> "ok", lines |-> << RobotsLine("User-agent:", << "*" >>),
                                 RobotsLine("Disallow:", pAdmin) >>],
    [kind |-> "ok", lines |-> << RobotsLine("User-agent:", << "googlebot" >>),
                                 RobotsLine("Disallow:", pRoot),
                                 RobotsLine("", <<>>),
                                 RobotsLine("User-Agent:", << "SEO-Crawler" >>),
                                 RobotsLine("Disallow:", <<>>),
                                 RobotsLine("disallow:", pA),
                                 RobotsLine("Allow:", pASlash) >>],
    [kind |-> "ok", lines |-> << RobotsLine("Disallow:", pRoot),
                                 RobotsLine("User-agent:", << "googlebot" >>),
                                 RobotsLine("Disallow:", pRoot) >>],
    [kind |-> "http_error", lines |-> <<>>],
    [kind |-> "network_error", lines |-> <<>>],
    [kind |-> "timeout", lines |-> <<>>] }

Sites == [robots : RobotsResponses, pages : SitePages]

Pattern(anchored, lit) == [anchored |-> anchored, lit |-> lit]

\* body.start_url: "" stands for an absent or blank one
StartUrls ==
  { Abs("", "", "", <<>>, <<>>, ""),
    Garbage,
    Abs("ftp:", "news.example", "", pRoot, <<>>, ""),
    Abs("https:", "news.example", "", pRoot, <<>>, ""),
    Abs("HTTPS:", "NEWS.EXAMPLE", "443", <<>>, <<>>, "frag") }

\* concurrency is a number that need not be whole.  The model keeps it in
\* halves: Halves(n) is the whole number n, Halves(n) - 1 is n - 0.5.
Halves(n) == 2 * n

IsWhole(h) == h % 2 = 0

\* body.concurrency: the whole numbers from -1 to MaxConcurrencyIn, and
\* MaxConcurrencyIn - 0.5
ConcurrencyIn ==
  { Halves(n) : n \in (-1)..MaxConcurrencyIn } \cup { Halves(MaxConcurrencyIn) - 1 }

\* Number(x) of an option x that is no number (a string such as "many"): a
\* value that no numeric option of the model takes
NaN == -1000000

\* A numeric option of the body: 0 stands for 0 and for an absent option, which
\* Number(x) || d and Number(x || d) treat alike
Bodies ==
  [ start_url : StartUrls,
    max_pages : 0..MaxPagesIn,
    max_depth : 0..MaxDepthIn,
    concurrency : ConcurrencyIn,
    timeout : {0},
    deny_patterns : { <<>>, << Pattern(FALSE, pD) >> },
    allow_patterns : { <<>> } ]

-----------------------------------------------------------------------------
(* The route handler and crawl() *)

Min(a, b) == IF a < b THEN a ELSE b

\* the clamp of maxPages without its upper limit
ClampMaxPages_NoUpper(v) ==
  LET n == IF v = 0 THEN DefaultMaxPages ELSE v
  IN  IF n = NaN \/ n < 1 THEN 1 ELSE n

\* let maxPages = Number(body.max_pages || DEFAULTS.maxPages), clamped
ClampMaxPages(v) ==
  LET n == IF v = 0 THEN DefaultMaxPages ELSE v
  IN  IF n = NaN \/ n < 1 THEN 1 ELSE IF n > 2000 THEN 2000 ELSE n

\* Number(v) || d
NumberOr(v, d) == IF v = 0 \/ v = NaN THEN d ELSE v

\* the config object of the route handler
BuildConfig(b) ==
  [ startUrl |-> b.start_url,
    maxPages |-> ClampMaxPages(b.max_pages),
    maxDepth |-> NumberOr(b.max_depth, DefaultMaxDepth),
    concurrency |-> Min(NumberOr(b.concurrency, Halves(DefaultConcurrency)), Halves(10)),
    timeout |-> Min(NumberOr(b.timeout, DefaultTimeout), 30000),
    userAgent |-> DefaultUserAgent,
    allowPatterns |-> b.allow_patterns,
    denyPatterns |-> b.deny_patterns ]

NoConfig == [startUrl |-> Garbage]
NoRobots == [allowAll |-> TRUE, rules |-> <<>>, content |-> "unset"]
NoResponse == [status |-> 0]

\* the object crawl() returns for a start URL it rejects, and the 400 body
ErrorResult(startUrl, maxPages, error) ==
  [ start_url |-> startUrl, max_pages |-> maxPages, total_pages_crawled |-> 0,
    pages |-> <<>>,
    summary |-> [errors |-> 0, blocked |-> 0, duplicates |-> 0],
    error |-> error ]

\* the object crawl() returns after the loop
CrawlResult ==
  [ start_url |-> normalizedStart, max_pages |-> config.maxPages,
    total_pages_crawled |-> Len(pages),
    pages |-> pages,
    summary |-> [errors |-> errorCount, blocked |-> blockedCount,
                 duplicates |-> duplicateCount,
                 robots_txt |-> IF robots.content \in {"null", ""}
                                  THEN "not_found" ELSE "found"],
    error |-> "" ]

\* pageResult.error is a list of the pieces of the message, <<>> for undefined
PageResult(url, status, httpStatus, links, depth, error) ==
  [ url |-> url, status |-> status, http_status |-> httpStatus,
    internal_links |-> links, depth |-> depth, error |-> error ]

NoBody == [start_url |-> Garbage]
NoSite == [robots |-> [kind |-> "unset"]]

\* no request has arrived
Idle ==
  /\ body = NoBody
  /\ site = NoSite
  /\ pc = "idle"
  /\ config = NoConfig
  /\ normalizedStart = NULL
  /\ origin = NULL
  /\ robots = NoRobots
  /\ visited = {}
  /\ canonicalSeen = {}
  /\ queue = <<>>
  /\ pages = <<>>
  /\ errorCount = 0
  /\ blockedCount = 0
  /\ duplicateCount = 0
  /\ batch = <<>>
  /\ tasks = <<>>
  /\ response = NoResponse
  /\ fetched = <<>>
  /\ dequeued = <<>>

Init == Idle /\ pf = 0

\* seoCrawlerRouter.post('/'), for a request with some body to crawl some site,
\* up to the first await of crawl(): the 400 for a missing start_url, the
\* config, the start URL's normalization and the issue of the robots.txt fetch
PostWith(bodies, sites) ==
  /\ pc = "idle"
  /\ body' \in bodies
  /\ site' \in sites
  /\ \E startUrl \in {body'.start_url}, cfg \in {BuildConfig(body')},
        start \in {normalizeUrl(body'.start_url, body'.start_url)} :
         IF startUrl.protocol = ""
           THEN /\ response' = [status |-> 400,
                                body |-> ErrorResult(startUrl, 0, "start_url is required")]
                /\ pc' = "done"
                /\ UNCHANGED << config, normalizedStart, origin >>
         ELSE IF start = NULL
           THEN /\ response' = [status |-> 200,
                                body |-> ErrorResult(startUrl, cfg.maxPages, "Invalid start_url")]
                /\ pc' = "done"
                /\ config' = cfg
                /\ UNCHANGED << normalizedStart, origin >>
         ELSE /\ config' = cfg
              /\ normalizedStart' = start
              /\ origin' = Origin(start)
              /\ pc' = "robots"
              /\ UNCHANGED response
  /\ UNCHANGED << robots, visited, canonicalSeen, queue, pages,
                  errorCount, blockedCount, duplicateCount, batch, tasks,
                  fetched, dequeued, pf >>

\* a request of the model arrives
Post == PostWith(Bodies, Sites)

\* the fetch of robots.txt settles: loadRobotsTxt returns and crawl() sets up
\* its state
RobotsSettle ==
  /\ pc = "robots"
  /\ robots' = loadRobotsTxt(site.robots, config.userAgent)
  /\ visited' = {}
  /\ canonicalSeen' = {}
  /\ queue' = << [url |-> normalizedStart, depth |-> 0] >>
  /\ pages' = <<>>
  /\ errorCount' = 0
  /\ blockedCount' = 0
  /\ duplicateCount' = 0
  /\ pc' = "outer"
  /\ UNCHANGED << body, site, config, normalizedStart, origin, batch, tasks,
                  response, fetched, dequeued, pf >>

\* while (queue.length > 0 && pages.length < maxPages): enter the body with an
\* empty batch, or leave the loop, return the result and send it
OuterTest ==
  /\ pc = "outer"
  /\ IF Len(queue) > 0 /\ Len(pages) < config.maxPages
       THEN /\ pc' = "inner"
            /\ batch' = <<>>
            /\ UNCHANGED response
       ELSE /\ pc' = "done"
            /\ response' = [status |-> 200, body |-> CrawlResult]
            /\ UNCHANGED batch
  /\ UNCHANGED << body, site, config, normalizedStart, origin, robots, visited,
                  canonicalSeen, queue, pages, errorCount, blockedCount,
                  duplicateCount, tasks, fetched, dequeued, pf >>

\* the inner while without its page-budget conjunct
InnerCondition_NoBudget ==
  /\ Halves(Len(batch)) < config.concurrency
  /\ Len(queue) > 0

\* the inner while with batch.length < concurrency - 1
InnerCondition_OffByOne ==
  /\ Halves(Len(batch)) < config.concurrency - Halves(1)
  /\ Len(queue) > 0
  /\ Len(pages) + Len(batch) < config.maxPages

\* the condition of the inner while
InnerCondition ==
  /\ Halves(Len(batch)) < config.concurrency
  /\ Len(queue) > 0
  /\ Len(pages) + Len(batch) < config.maxPages

\* the checks without the visited check
Disposition_NoVisitedCheck(item) ==
  IF item.depth > config.maxDepth THEN "too_deep"
  ELSE IF ~RobotsIsAllowed(robots, item.url.pathname) THEN "blocked_robots"
  ELSE IF shouldDenyUrl(UrlString(item.url), config.denyPatterns, config.allowPatterns)
    THEN "blocked_pattern"
  ELSE "batch"

\* the checks without the depth check
Disposition_NoDepthCheck(item) ==
  IF item.url \in visited THEN "duplicate"
  ELSE IF ~RobotsIsAllowed(robots, item.url.pathname) THEN "blocked_robots"
  ELSE IF shouldDenyUrl(UrlString(item.url), config.denyPatterns, config.allowPatterns)
    THEN "blocked_pattern"
  ELSE "batch"

\* the checks without the pattern check
Disposition_NoPatternCheck(item) ==
  IF item.url \in visited THEN "duplicate"
  ELSE IF item.depth > config.maxDepth THEN "too_deep"
  ELSE IF ~RobotsIsAllowed(robots, item.url.pathname) THEN "blocked_robots"
  ELSE "batch"

\* the checks with the pattern check ahead of the robots check
Disposition_PatternFirst(item) ==
  IF item.url \in visited THEN "duplicate"
  ELSE IF item.depth > config.maxDepth THEN "too_deep"
  ELSE IF shouldDenyUrl(UrlString(item.url), config.denyPatterns, config.allowPatterns)
    THEN "blocked_pattern"
  ELSE IF ~RobotsIsAllowed(robots, item.url.pathname) THEN "blocked_robots"
  ELSE "batch"

\* what the checks of one inner iteration decide for the item shifted
Disposition(item) ==
  IF item.url \in visited THEN "duplicate"
  ELSE IF item.depth > config.maxDepth THEN "too_deep"
  ELSE IF ~RobotsIsAllowed(robots, item.url.pathname) THEN "blocked_robots"
  ELSE IF shouldDenyUrl(UrlString(item.url), config.denyPatterns, config.allowPatterns)
    THEN "blocked_pattern"
  ELSE "batch"

\* the inner iteration without visited.add(item.url)
InnerStep_NoVisitedAdd ==
  /\ pc = "inner"
  /\ InnerCondition
  /\ \E item \in {Head(queue)}, d \in {Disposition(Head(queue))} :
         /\ queue' = Tail(queue)
         /\ dequeued' = Append(dequeued, [url |-> item.url, depth |-> item.depth, as |-> d])
         /\ visited' = visited
         /\ duplicateCount' = IF d = "duplicate" THEN duplicateCount + 1 ELSE duplicateCount
         /\ blockedCount' = IF d \in {"blocked_robots", "blocked_pattern"}
                              THEN blockedCount + 1 ELSE blockedCount
         /\ pages' = IF d \in {"blocked_robots", "blocked_pattern"}
                       THEN Append(pages, PageResult(item.url, d, 0, <<>>, item.depth, <<>>))
                       ELSE pages
         /\ batch' = IF d = "batch" THEN Append(batch, item) ELSE batch
  /\ UNCHANGED << body, site, pc, config, normalizedStart, origin, robots,
                  canonicalSeen, errorCount, tasks, response, fetched, pf >>

\* one iteration of the inner while: shift an item and run the checks on it
InnerStep ==
  /\ pc = "inner"
  /\ InnerCondition
  /\ \E item \in {Head(queue)}, d \in {Disposition(Head(queue))} :
         /\ queue' = Tail(queue)
         /\ dequeued' = Append(dequeued, [url |-> item.url, depth |-> item.depth, as |-> d])
         /\ visited' = visited \cup {item.url}
         /\ duplicateCount' = IF d = "duplicate" THEN duplicateCount + 1 ELSE duplicateCount
         /\ blockedCount' = IF d \in {"blocked_robots", "blocked_pattern"}
                              THEN blockedCount + 1 ELSE blockedCount
         /\ pages' = IF d \in {"blocked_robots", "blocked_pattern"}
                       THEN Append(pages, PageResult(item.url, d, 0, <<>>, item.depth, <<>>))
                       ELSE pages
         /\ batch' = IF d = "batch" THEN Append(batch, item) ELSE batch
  /\ UNCHANGED << body, site, pc, config, normalizedStart, origin, robots,
                  canonicalSeen, errorCount, tasks, response, fetched, pf >>

\* the inner while ends: an empty batch continues the outer loop; otherwise
\* batch.map starts one callback per item, each running up to its
\* await fetchWithTimeout(item.url, ...)
InnerExit ==
  /\ pc = "inner"
  /\ ~InnerCondition
  /\ IF batch = <<>>
       THEN /\ pc' = "outer"
            /\ UNCHANGED << tasks, fetched >>
       ELSE /\ pc' = "await"
            /\ tasks' = [i \in DOMAIN batch |->
                          [at |-> "fetch",
                           pageResult |-> PageResult(batch[i].url, "pending", 0, <<>>,
                                                     batch[i].depth, <<>>)]]
            /\ fetched' = fetched \o [i \in DOMAIN batch |-> batch[i].url]
  /\ UNCHANGED << body, site, config, normalizedStart, origin, robots, visited,
                  canonicalSeen, queue, pages, errorCount, blockedCount,
                  duplicateCount, batch, response, dequeued, pf >>

\* the for loop with unshift in place of push
RECURSIVE EnqueueLinks_Unshift(_, _, _, _)
EnqueueLinks_Unshift(links, i, q, depth) ==
  IF i > Len(links) THEN q
  ELSE IF links[i] \notin visited /\ Len(q) < maxQueueSize
    THEN EnqueueLinks_Unshift(links, i + 1,
                              << [url |-> links[i], depth |-> depth + 1] >> \o q, depth)
    ELSE EnqueueLinks_Unshift(links, i + 1, q, depth)

\* the for loop pushing links at the depth of the page itself
RECURSIVE EnqueueLinks_SameDepth(_, _, _, _)
EnqueueLinks_SameDepth(links, i, q, depth) ==
  IF i > Len(links) THEN q
  ELSE IF links[i] \notin visited /\ Len(q) < maxQueueSize
    THEN EnqueueLinks_SameDepth(links, i + 1,
                                Append(q, [url |-> links[i], depth |-> depth]), depth)
    ELSE EnqueueLinks_SameDepth(links, i + 1, q, depth)

\* the for loop with queue.length <= maxQueueSize
RECURSIVE EnqueueLinks_OverCap(_, _, _, _)
EnqueueLinks_OverCap(links, i, q, depth) ==
  IF i > Len(links) THEN q
  ELSE IF links[i] \notin visited /\ Len(q) <= maxQueueSize
    THEN EnqueueLinks_OverCap(links, i + 1,
                              Append(q, [url |-> links[i], depth |-> depth + 1]), depth)
    ELSE EnqueueLinks_OverCap(links, i + 1, q, depth)

\* the for loop over links[i..] that pushes onto the queue q
RECURSIVE EnqueueLinks(_, _, _, _)
EnqueueLinks(links, i, q, depth) ==
  IF i > Len(links) THEN q
  ELSE IF links[i] \notin visited /\ Len(q) < maxQueueSize
    THEN EnqueueLinks(links, i + 1, Append(q, [url |-> links[i], depth |-> depth + 1]), depth)
    ELSE EnqueueLinks(links, i + 1, q, depth)

\* the callback without errorCount++ where the response is not ok
FetchSettle_NoErrorCount(i) ==
  /\ pc = "await"
  /\ tasks[i].at = "fetch"
  /\ \E r \in {PageResponse(site.pages, batch[i].url)}, pr \in {tasks[i].pageResult} :
         /\ tasks' = [tasks EXCEPT ![i] =
              CASE r.kind = "timeout" ->
                     [at |-> "done",
                      pageResult |-> [pr EXCEPT !.status = "fetch_error", !.error = << "Timeout" >>]]
                [] r.kind = "network_error" ->
                     [at |-> "done",
                      pageResult |-> [pr EXCEPT !.status = "fetch_error", !.error = << "fetch failed" >>]]
                [] r.kind = "http_error" ->
                     [at |-> "done",
                      pageResult |-> [pr EXCEPT !.http_status = r.status,
                                                !.status = "http_error",
                                                !.error = << "HTTP ", r.status >>]]
                [] r.kind = "non_html" ->
                     [at |-> "done",
                      pageResult |-> [pr EXCEPT !.http_status = r.status,
                                                !.status = "skipped_non_html"]]
                [] OTHER ->
                     [at |-> "text",
                      pageResult |-> [pr EXCEPT !.http_status = r.status]]]
         /\ errorCount' = IF r.kind \in {"timeout", "network_error"}
                            THEN errorCount + 1 ELSE errorCount
  /\ UNCHANGED << body, site, pc, config, normalizedStart, origin, robots, visited,
                  canonicalSeen, queue, pages, blockedCount, duplicateCount, batch,
                  response, fetched, dequeued, pf >>

\* the callback returning on a non-HTML response without setting a status
FetchSettle_NonHtmlPending(i) ==
  /\ pc = "await"
  /\ tasks[i].at = "fetch"
  /\ \E r \in {PageResponse(site.pages, batch[i].url)}, pr \in {tasks[i].pageResult} :
         /\ tasks' = [tasks EXCEPT ![i] =
              CASE r.kind = "timeout" ->
                     [at |-> "done",
                      pageResult |-> [pr EXCEPT !.status = "fetch_error", !.error = << "Timeout" >>]]
                [] r.kind = "network_error" ->
                     [at |-> "done",
                      pageResult |-> [pr EXCEPT !.status = "fetch_error", !.error = << "fetch failed" >>]]
                [] r.kind = "http_error" ->
                     [at |-> "done",
                      pageResult |-> [pr EXCEPT !.http_status = r.status,
                                                !.status = "http_error",
                                                !.error = << "HTTP ", r.status >>]]
                [] r.kind = "non_html" ->
                     [at |-> "done",
                      pageResult |-> [pr EXCEPT !.http_status = r.status]]
                [] OTHER ->
                     [at |-> "text",
                      pageResult |-> [pr EXCEPT !.http_status = r.status]]]
         /\ errorCount' = IF r.kind \in {"timeout", "network_error", "http_error"}
                            THEN errorCount + 1 ELSE errorCount
  /\ UNCHANGED << body, site, pc, config, normalizedStart, origin, robots, visited,
                  canonicalSeen, queue, pages, blockedCount, duplicateCount, batch,
                  response, fetched, dequeued, pf >>

\* the callback of batch item i resumes after await fetchWithTimeout(...): the
\* fetch threw, or returned a response that is classified by status and
\* content type; an HTML response goes on to await res.text()
FetchSettle(i) ==
  /\ pc = "await"
  /\ tasks[i].at = "fetch"
  /\ \E r \in {PageResponse(site.pages, batch[i].url)}, pr \in {tasks[i].pageResult} :
         /\ tasks' = [tasks EXCEPT ![i] =
              CASE r.kind = "timeout" ->
                     [at |-> "done",
                      pageResult |-> [pr EXCEPT !.status = "fetch_error", !.error = << "Timeout" >>]]
                [] r.kind = "network_error" ->
                     [at |-> "done",
                      pageResult |-> [pr EXCEPT !.status = "fetch_error", !.error = << "fetch failed" >>]]
                [] r.kind = "http_error" ->
                     [at |-> "done",
                      pageResult |-> [pr EXCEPT !.http_status = r.status,
                                                !.status = "http_error",
                                                !.error = << "HTTP ", r.status >>]]
                [] r.kind = "non_html" ->
                     [at |-> "done",
                      pageResult |-> [pr EXCEPT !.http_status = r.status,
                                                !.status = "skipped_non_html"]]
                [] OTHER ->
                     [at |-> "text",
                      pageResult |-> [pr EXCEPT !.http_status = r.status]]]
         /\ errorCount' = IF r.kind \in {"timeout", "network_error", "http_error"}
                            THEN errorCount + 1 ELSE errorCount
  /\ UNCHANGED << body, site, pc, config, normalizedStart, origin, robots, visited,
                  canonicalSeen, queue, pages, blockedCount, duplicateCount, batch,
                  response, fetched, dequeued, pf >>

\* the canonical is recorded or is the URL of a page that came out a success
CanonicalDuplicate_Processed(canonical, url) ==
  /\ canonical # NULL
  /\ canonical # url
  /\ \/ canonical \in canonicalSeen
     \/ \E k \in DOMAIN pages : pages[k].url = canonical /\ pages[k].status = "success"

\* the canonical points at a page already seen rather than elsewhere
CanonicalDuplicate_Visited(canonical, url) ==
  canonical # NULL /\ canonical # url /\ canonical \in visited

\* if (canonical && canonical !== item.url) { if (canonicalSeen.has(canonical))
CanonicalDuplicate(canonical, url) ==
  canonical # NULL /\ canonical # url /\ canonical \in canonicalSeen

\* the callback without duplicateCount++ for a duplicate_canonical page
TextSettle_NoDuplicateCount(i) ==
  /\ pc = "await"
  /\ tasks[i].at = "text"
  /\ \E item \in {batch[i]}, r \in {PageResponse(site.pages, batch[i].url)},
        pr \in {tasks[i].pageResult} :
     \E canonical \in {extractCanonical(r, item.url)},
        links \in {extractInternalLinks(r, item.url, origin)} :
         IF r.kind = "body_error"
           THEN /\ tasks' = [tasks EXCEPT ![i] =
                       [at |-> "done",
                        pageResult |-> [pr EXCEPT !.status = "fetch_error",
                                                  !.error = << "body failed" >>]]]
                /\ errorCount' = errorCount + 1
                /\ UNCHANGED << canonicalSeen, queue, duplicateCount >>
         ELSE IF CanonicalDuplicate(canonical, item.url)
           THEN /\ tasks' = [tasks EXCEPT ![i] =
                       [at |-> "done",
                        pageResult |-> [pr EXCEPT !.status = "duplicate_canonical"]]]
                /\ UNCHANGED << canonicalSeen, queue, errorCount, duplicateCount >>
         ELSE /\ canonicalSeen' = IF canonical # NULL
                                    THEN canonicalSeen \cup {canonical}
                                    ELSE canonicalSeen
              /\ queue' = EnqueueLinks(links, 1, queue, item.depth)
              /\ tasks' = [tasks EXCEPT ![i] =
                     [at |-> "done",
                      pageResult |-> [pr EXCEPT !.status = "success",
                                                !.internal_links = links]]]
              /\ UNCHANGED << errorCount, duplicateCount >>
  /\ UNCHANGED << body, site, pc, config, normalizedStart, origin, robots, visited,
                  pages, blockedCount, batch, response, fetched, dequeued, pf >>

\* the callback pushing the links of a duplicate_canonical page as well
TextSettle_DuplicateEnqueues(i) ==
  /\ pc = "await"
  /\ tasks[i].at = "text"
  /\ \E item \in {batch[i]}, r \in {PageResponse(site.pages, batch[i].url)},
        pr \in {tasks[i].pageResult} :
     \E canonical \in {extractCanonical(r, item.url)},
        links \in {extractInternalLinks(r, item.url, origin)} :
         IF r.kind = "body_error"
           THEN /\ tasks' = [tasks EXCEPT ![i] =
                       [at |-> "done",
                        pageResult |-> [pr EXCEPT !.status = "fetch_error",
                                                  !.error = << "body failed" >>]]]
                /\ errorCount' = errorCount + 1
                /\ UNCHANGED << canonicalSeen, queue, duplicateCount >>
         ELSE IF CanonicalDuplicate(canonical, item.url)
           THEN /\ tasks' = [tasks EXCEPT ![i] =
                       [at |-> "done",
                        pageResult |-> [pr EXCEPT !.status = "duplicate_canonical"]]]
                /\ duplicateCount' = duplicateCount + 1
                /\ queue' = EnqueueLinks(links, 1, queue, item.depth)
                /\ UNCHANGED << canonicalSeen, errorCount >>
         ELSE /\ canonicalSeen' = IF canonical # NULL
                                    THEN canonicalSeen \cup {canonical}
                                    ELSE canonicalSeen
              /\ queue' = EnqueueLinks(links, 1, queue, item.depth)
              /\ tasks' = [tasks EXCEPT ![i] =
                     [at |-> "done",
                      pageResult |-> [pr EXCEPT !.status = "success",
                                                !.internal_links = links]]]
              /\ UNCHANGED << errorCount, duplicateCount >>
  /\ UNCHANGED << body, site, pc, config, normalizedStart, origin, robots, visited,
                  pages, blockedCount, batch, response, fetched, dequeued, pf >>

\* the callback of batch item i resumes after await res.text(): reading the body
\* threw, or the page is checked against canonicalSeen, its links are extracted
\* and the new ones pushed onto the queue
TextSettle(i) ==
  /\ pc = "await"
  /\ tasks[i].at = "text"
  /\ \E item \in {batch[i]}, r \in {PageResponse(site.pages, batch[i].url)},
        pr \in {tasks[i].pageResult} :
     \E canonical \in {extractCanonical(r, item.url)},
        links \in {extractInternalLinks(r, item.url, origin)} :
         IF r.kind = "body_error"
           THEN /\ tasks' = [tasks EXCEPT ![i] =
                       [at |-> "done",
                        pageResult |-> [pr EXCEPT !.status = "fetch_error",
                                                  !.error = << "body failed" >>]]]
                /\ errorCount' = errorCount + 1
                /\ UNCHANGED << canonicalSeen, queue, duplicateCount >>
         ELSE IF CanonicalDuplicate(canonical, item.url)
           THEN /\ tasks' = [tasks EXCEPT ![i] =
                       [at |-> "done",
                        pageResult |-> [pr EXCEPT !.status = "duplicate_canonical"]]]
                /\ duplicateCount' = duplicateCount + 1
                /\ UNCHANGED << canonicalSeen, queue, errorCount >>
         ELSE /\ canonicalSeen' = IF canonical # NULL
                                    THEN canonicalSeen \cup {canonical}
                                    ELSE canonicalSeen
              /\ queue' = EnqueueLinks(links, 1, queue, item.depth)
              /\ tasks' = [tasks EXCEPT ![i] =
                     [at |-> "done",
                      pageResult |-> [pr EXCEPT !.status = "success",
                                                !.internal_links = links]]]
              /\ UNCHANGED << errorCount, duplicateCount >>
  /\ UNCHANGED << body, site, pc, config, normalizedStart, origin, robots, visited,
                  pages, blockedCount, batch, response, fetched, dequeued, pf >>

\* Promise.allSettled resolves once every callback has returned; the results are
\* pushed onto pages in batch order and the outer loop goes round
Collect ==
  /\ pc = "await"
  /\ \A i \in DOMAIN tasks : tasks[i].at = "done"
  /\ pages' = pages \o [i \in DOMAIN tasks |-> tasks[i].pageResult]
  /\ tasks' = <<>>
  /\ batch' = <<>>
  /\ pc' = "outer"
  /\ UNCHANGED << body, site, config, normalizedStart, origin, robots, visited,
                  canonicalSeen, queue, errorCount, blockedCount, duplicateCount,
                  response, fetched, dequeued, pf >>

Next ==
  \/ Post
  \/ RobotsSettle
  \/ OuterTest
  \/ InnerStep
  \/ InnerExit
  \/ \E i \in DOMAIN tasks : FetchSettle(i)
  \/ \E i \in DOMAIN tasks : TextSettle(i)
  \/ Collect

Spec == Init /\ [][Next]_vars

\* Every fetch settles (fetchWithTimeout aborts it at the timeout at the latest)
\* and the event loop runs every callback that is ready
FairSpec == Spec /\ WF_vars(Next)

-----------------------------------------------------------------------------
(* The crawl of a large site, taken up where its frontier is about to fill:   *)
(* the home page links to NSections section pages /?b=1 .. /?b=NSections,     *)
(* and every section links to SectionSize item pages /?id=k of its own, but   *)
(* the last, which links to between CapSlack fewer and one more than fill     *)
(* the frontier to maxQueueSize.  The items are not served (404).             *)

NSections == 400

\* how far below the cap the sites drawn start
CapSlack == 3

SectionSize == maxQueueSize \div NSections

\* the numbers of links of the last section
LastSizes ==
  { maxQueueSize - (NSections - 1) * SectionSize + d : d \in (-CapSlack)..1 }

Param(key, n) == << [k |-> key, v |-> ToString(n)] >>

\* https://news.example/?b=j
SectionUrl(j) == Url("https:", "news.example", "", pRoot, Param("b", j), "")

\* https://news.example/?id=k, the i-th item of section j
ItemUrl(j, i) ==
  Url("https:", "news.example", "", pRoot, Param("id", (j - 1) * SectionSize + i), "")

\* the number of links of section j, the last section having last
SizeOf(j, last) == IF j = NSections THEN last ELSE SectionSize

PagesSections(last) ==
  [ u \in {U(pRoot)} \cup { SectionUrl(j) : j \in 1..NSections } |->
      IF u = U(pRoot)
        THEN Html([j \in 1..NSections |-> Rel(pRoot, Param("b", j), "")], 0)
        ELSE CHOOSE h \in
               { Html([i \in 1..SizeOf(j, last) |->
                         Rel(pRoot, Param("id", (j - 1) * SectionSize + i), "")], 0)
                 : j \in { j \in 1..NSections : SectionUrl(j) = u } } : TRUE ]

BodiesCap ==
  [ start_url : { Abs("https:", "news.example", "", pRoot, <<>>, "") },
    max_pages : { NSections + 2 },
    max_depth : {0},
    concurrency : { Halves(n) : n \in 1..MaxConcurrencyIn },
    timeout : {0},
    deny_patterns : { <<>> },
    allow_patterns : { <<>> } ]

\* the result of section j, all of whose links were enqueued
SectionResult(j) ==
  PageResult(SectionUrl(j), "success", 200, [i \in 1..SectionSize |-> ItemUrl(j, i)], 1, <<>>)

\* the items of sections 1..m in the order they were pushed
ItemsQueue(m) ==
  [n \in 1..(m * SectionSize) |->
     [url |-> ItemUrl(((n - 1) \div SectionSize) + 1, ((n - 1) % SectionSize) + 1), depth |-> 2]]

\* the state of crawl() when the last batch of sections (c of them, c the
\* concurrency) has been fetched and awaits its bodies: the home page and the
\* sections before are in pages, their items in the frontier
InitCap ==
  /\ body \in BodiesCap
  /\ site \in { [robots |-> [kind |-> "http_error", lines |-> <<>>],
                 pages |-> PagesSections(last)] : last \in LastSizes }
  /\ config = BuildConfig(body)
  /\ normalizedStart = U(pRoot)
  /\ origin = Origin(U(pRoot))
  /\ robots = loadRobotsTxt(site.robots, config.userAgent)
  /\ canonicalSeen = {}
  /\ errorCount = 0
  /\ blockedCount = 0
  /\ duplicateCount = 0
  /\ response = NoResponse
  /\ pc = "await"
  /\ pf = 0
  /\ \E c \in {config.concurrency \div 2} :
       /\ batch = [i \in 1..c |-> [url |-> SectionUrl(NSections - c + i), depth |-> 1]]
       /\ tasks = [i \in 1..c |->
                    [at |-> "text",
                     pageResult |-> PageResult(SectionUrl(NSections - c + i), "pending",
                                               200, <<>>, 1, <<>>)]]
       /\ visited = {U(pRoot)} \cup { SectionUrl(j) : j \in 1..NSections }
       /\ queue = ItemsQueue(NSections - c)
       /\ pages = << PageResult(U(pRoot), "success", 200,
                                [j \in 1..NSections |-> SectionUrl(j)], 0, <<>>) >>
                   \o [j \in 1..(NSections - c) |-> SectionResult(j)]
       /\ fetched = << U(pRoot) >> \o [j \in 1..NSections |-> SectionUrl(j)]
       /\ dequeued = << [url |-> U(pRoot), depth |-> 0, as |-> "batch"] >>
                      \o [j \in 1..NSections |->
                            [url |-> SectionUrl(j), depth |-> 1, as |-> "batch"]]

NextCap ==
  \/ OuterTest
  \/ InnerStep
  \/ InnerExit
  \/ \E i \in DOMAIN tasks : FetchSettle(i)
  \/ \E i \in DOMAIN tasks : TextSettle(i)
  \/ Collect

SpecCap == InitCap /\ [][NextCap]_vars

-----------------------------------------------------------------------------
(* The scenario of the spec: the request {start_url: "https://news.example/", *)
(* max_pages: 5, concurrency: 2} has been accepted and the fetch of           *)
(* robots.txt, which disallows /admin, is under way.  The home page links to  *)
(* /a, /b, /admin/secret and /a?utm_source=x; what /a and /b serve varies.    *)

ScenarioBody ==
  [ start_url |-> Abs("https:", "news.example", "", pRoot, <<>>, ""),
    max_pages |-> 5,
    max_depth |-> 0,
    concurrency |-> Halves(2),
    timeout |-> 0,
    deny_patterns |-> <<>>,
    allow_patterns |-> <<>> ]

ScenarioRobots ==
  { [kind |-> "ok", lines |-> << RobotsLine("User-agent:", << "*" >>),
                                 RobotsLine("Disallow:", pAdmin) >>],
    [kind |-> "ok", lines |-> << RobotsLine("User-Agent:", << "SEO-Crawler" >>),
                                 RobotsLine("Allow:", pA),
                                 RobotsLine("Disallow:", pAdmin) >>] }

\* what /a may serve
ScenarioA ==
  { PagesNews[U(pA)],
    Html(<< Rel(pAdminSecret, <<>>, ""),
            Rel(pA, << [k |-> "UTM_Source", v |-> "x"] >>, ""),
            Rel(pASlash, <<>>, ""), Rel(pC, <<>>, "") >>, 0),
    Failing("timeout", 0) }

\* what /b may serve
ScenarioB ==
  { PagesNews[U(pB)],
    Html(<< Rel(pA, <<>>, ""), Rel(pAdmin, <<>>, ""), Rel(pAdminSecret, <<>>, "x"),
            Rel(pD, <<>>, "") >>, 1),
    Failing("http_error", 500) }

ScenarioSites ==
  { [robots |-> r,
     pages |-> [u \in DOMAIN PagesNews |->
                  IF u = U(pA) THEN a ELSE IF u = U(pB) THEN b ELSE PagesNews[u]]]
    : r \in ScenarioRobots, a \in ScenarioA, b \in ScenarioB }

\* crawl(config) at its first await, the one in loadRobotsTxt
InitScenario ==
  /\ body = ScenarioBody
  /\ site \in ScenarioSites
  /\ config = BuildConfig(body)
  /\ normalizedStart = normalizeUrl(body.start_url, body.start_url)
  /\ origin = Origin(normalizedStart)
  /\ pc = "robots"
  /\ robots = NoRobots
  /\ visited = {}
  /\ canonicalSeen = {}
  /\ queue = <<>>
  /\ pages = <<>>
  /\ errorCount = 0
  /\ blockedCount = 0
  /\ duplicateCount = 0
  /\ batch = <<>>
  /\ tasks = <<>>
  /\ response = NoResponse
  /\ fetched = <<>>
  /\ dequeued = <<>>
  /\ pf = 0

NextScenario ==
  \/ RobotsSettle
  \/ OuterTest
  \/ InnerStep
  \/ InnerExit
  \/ \E i \in DOMAIN tasks : FetchSettle(i)
  \/ \E i \in DOMAIN tasks : TextSettle(i)
  \/ Collect

SpecScenario == InitScenario /\ [][NextScenario]_vars

-----------------------------------------------------------------------------
(* shouldDenyUrl on its own: one URL against every pair of lists of up to     *)
(* MaxPatterns caller patterns (strings that compile to a RegExp)             *)

MaxPatterns == 2

pPdf == << "/", "a", ".", "p", "d", "f" >>

\* the hrefs tested
DenyUrls ==
  { U(path) : path \in { pRoot, pA, pB, pAdmin, pAdminSecret, pPage2, pPdf } }
  \cup { Url("https:", "news.example", "", pA, << [k |-> key, v |-> val] >>, "")
         : key \in { "page", "sort", "id" }, val \in { "2", "x" } }

CallerPatterns ==
  { Pattern(FALSE, << "/", "A" >>),
    Pattern(FALSE, pAdmin),
    Pattern(TRUE, << "https:", "//", "news.example", "/", "b" >>),
    Pattern(FALSE, << "=", "x" >>) }

PatternLists == UNION { [1..n -> CallerPatterns] : n \in 0..MaxPatterns }

InitDeny ==
  /\ Idle
  /\ pf \in [urlString : { UrlString(u) : u \in DenyUrls },
              denyPatterns : PatternLists, allowPatterns : PatternLists,
              called : {FALSE}, result : {FALSE}]

\* const denied = shouldDenyUrl(urlString, { denyPatterns, allowPatterns })
CallShouldDenyUrl ==
  /\ ~pf.called
  /\ pf' = [pf EXCEPT !.called = TRUE,
                      !.result = shouldDenyUrl(pf.urlString, pf.denyPatterns,
                                               pf.allowPatterns)]
  /\ UNCHANGED << body, site, pc, config, normalizedStart, origin, robots, visited,
                  canonicalSeen, queue, pages, errorCount, blockedCount,
                  duplicateCount, batch, tasks, response, fetched, dequeued >>

NextDeny == CallShouldDenyUrl

SpecDeny == InitDeny /\ [][NextDeny]_vars

-----------------------------------------------------------------------------
(* normalizeUrl on its own, applied to an href and then to its own result     *)

MaxParams == 2

pSlashes == << "/", "/" >>
pADouble == << "/", "a", "/", "/" >>
pABDouble == << "/", "a", "/", "/", "b", "/", "/" >>
pDoubleAB == << "/", "/", "a", "/", "/", "/", "b" >>

NormParams ==
  { [k |-> "utm_source", v |-> "x"], [k |-> "UTM_Source", v |-> "x"],
    [k |-> "id", v |-> "x"], [k |-> "b", v |-> "x"], [k |-> "b", v |-> "2"],
    [k |-> "Page", v |-> "x"] }

NormQueries == UNION { [1..n -> NormParams] : n \in 0..MaxParams }

\* the hrefs normalized: absolute ones, absolute-path references and one
\* string that is no URL
NormUrls ==
  { Abs(proto, host, port, path, search, hash)
    : proto \in { "https:", "HTTPS:", "ftp:" },
      host \in { "news.example", "NEWS.EXAMPLE" },
      port \in { "", "443", "8080" },
      path \in { <<>>, pRoot, pA, pASlash, pSlashes, pADouble, pABDouble, pDoubleAB },
      search \in NormQueries,
      hash \in { "", "top" } }
  \cup { Rel(path, search, hash)
         : path \in { pRoot, pA, pASlash, pADouble, pABDouble },
           search \in NormQueries,
           hash \in { "", "top" } }
  \cup { Garbage }

NormBases ==
  { Abs("https:", "news.example", "", pA, <<>>, ""),
    Abs("HTTPS:", "NEWS.EXAMPLE", "8080", pRoot, <<>>, "") }

InitNormalize ==
  /\ Idle
  /\ pf \in [raw : NormUrls, baseUrl : NormBases, called : {FALSE},
              once : {NULL}, twice : {NULL}]

\* const once = normalizeUrl(raw, baseUrl); const twice = normalizeUrl(once, baseUrl)
CallNormalizeUrl ==
  /\ ~pf.called
  /\ \E once \in {normalizeUrl(pf.raw, pf.baseUrl)} :
       pf' = [pf EXCEPT !.called = TRUE,
                        !.once = once,
                        !.twice = IF once = NULL THEN NULL
                                  ELSE normalizeUrl(AsRaw(once), pf.baseUrl)]
  /\ UNCHANGED << body, site, pc, config, normalizedStart, origin, robots, visited,
                  canonicalSeen, queue, pages, errorCount, blockedCount,
                  duplicateCount, batch, tasks, response, fetched, dequeued >>

NextNormalize == CallNormalizeUrl

SpecNormalize == InitNormalize /\ [][NextNormalize]_vars

-----------------------------------------------------------------------------
(* The route handler on its own: requests whose numeric options are absent,   *)
(* no numbers, below, at and above the limits of the handler                  *)

ConfigBodies ==
  [ start_url : { Abs("https:", "news.example", "", pRoot, <<>>, ""),
                  Abs("ftp:", "news.example", "", pRoot, <<>>, "") },
    max_pages : { NaN, -1, 0, 1, 50, 2000, 2001, 100000 },
    max_depth : { 0 },
    concurrency : { NaN, Halves(-1), 0, 1, Halves(3), Halves(10) - 1, Halves(10),
                    Halves(10) + 1, Halves(11) },
    timeout : { NaN, -1, 0, 1, 15000, 30000, 30001 },
    deny_patterns : { <<>> },
    allow_patterns : { <<>> } ]

PostConfig ==
  PostWith(ConfigBodies, { [robots |-> [kind |-> "http_error", lines |-> <<>>],
                            pages |-> PagesNews] })

NextConfig == PostConfig

SpecConfig == Init /\ [][NextConfig]_vars

-----------------------------------------------------------------------------
(* isAllowed on its own: every rule list of up to MaxRules rules that         *)
(* parseRobotsTxt can collect (it collects no rule with an empty path),      *)
(* queried with one path                                                     *)

MaxRules == 3

RulePaths == { pRoot, pA, pASlash, pAdmin }

RuleLists ==
  UNION { [1..n -> [type : {"allow", "disallow"}, path : RulePaths]] : n \in 0..MaxRules }

QueryPaths == { <<>>, pRoot, pA, pASlash, pB, pAdmin, pAdminSecret }

InitIsAllowed ==
  /\ Idle
  /\ pf \in [rules : RuleLists, urlPath : QueryPaths, called : {FALSE}, result : {FALSE}]

\* const allowed = isAllowed(urlPath)
CallIsAllowed ==
  /\ ~pf.called
  /\ pf' = [pf EXCEPT !.called = TRUE, !.result = isAllowed(pf.rules, pf.urlPath)]
  /\ UNCHANGED << body, site, pc, config, normalizedStart, origin, robots, visited,
                  canonicalSeen, queue, pages, errorCount, blockedCount,
                  duplicateCount, batch, tasks, response, fetched, dequeued >>

NextIsAllowed == CallIsAllowed

SpecIsAllowed == InitIsAllowed /\ [][NextIsAllowed]_vars

-----------------------------------------------------------------------------
(* Properties *)

\* crawl() has set up its state (the robots.txt fetch has settled)
Crawling == pc \in {"outer", "inner", "await"} \/ (pc = "done" /\ robots # NoRobots)

\* the PageResults made so far: those in pages and those of the callbacks that
\* have returned but are not collected yet
Results == pages \o SelectSeq([i \in DOMAIN tasks |-> tasks[i].pageResult],
                              LAMBDA r : r.status # "pending")

\* C1 At-most-once visit: no URL is handed to fetch twice and no two
\* PageResults carry the same URL, however many frontier entries carried it.
C1_AtMostOnceVisit ==
  /\ \A i, j \in DOMAIN fetched : fetched[i] = fetched[j] => i = j
  /\ \A i, j \in DOMAIN Results : Results[i].url = Results[j].url => i = j

\* A URL that was dequeued a second time (two pages linked to it) and has been
\* fetched once, with its one result recorded
C1_Witness ==
  \E d \in DOMAIN dequeued :
    /\ dequeued[d].as = "duplicate"
    /\ \E f \in DOMAIN fetched : fetched[f] = dequeued[d].url
    /\ \E k \in DOMAIN pages : pages[k].url = dequeued[d].url

\* C2 Page budget: results recorded plus the batch being formed or fetched never
\* exceed maxPages, so neither do the page fetches issued nor
\* total_pages_crawled in the result returned.
C2_PageBudget ==
  Crawling =>
    /\ config.maxPages >= 1
    /\ Len(pages) + Len(batch) <= config.maxPages
    /\ Len(fetched) <= config.maxPages
    /\ pc = "done" => response.body.total_pages_crawled <= config.maxPages

\* The crawl returned with the budget used up while frontier entries were
\* still waiting
C2_Witness ==
  /\ pc = "done"
  /\ Crawling
  /\ response.body.total_pages_crawled = config.maxPages
  /\ Len(queue) > 0
  /\ Len(fetched) > 1

\* no result, and no entry chosen for fetching, lies beyond maxDepth
DepthInv ==
  /\ \A i \in DOMAIN Results : Results[i].depth <= config.maxDepth
  /\ \A i \in DOMAIN batch : batch[i].depth <= config.maxDepth

\* the next inner iteration shifts an entry that lies beyond maxDepth
DeepDequeue ==
  /\ pc = "inner"
  /\ InnerCondition
  /\ Head(queue).depth > config.maxDepth

\* C3 as stated: nothing beyond maxDepth is fetched or gets a result, and
\* dequeuing such an entry adds no result and changes no counter at all.
C3_Original ==
  [][ /\ DepthInv'
      /\ DeepDequeue =>
           UNCHANGED << pages, batch, fetched, errorCount, blockedCount, duplicateCount >>
    ]_vars

\* C3 Depth bound, amended: nothing beyond maxDepth is fetched or gets a result;
\* dequeuing such an entry adds no result and leaves errors and blocked alone,
\* and it adds one to duplicates exactly when its URL is already visited (the
\* visited check runs before the depth check).
C3_DepthBound ==
  [][ /\ DepthInv'
      /\ DeepDequeue =>
           /\ UNCHANGED << pages, batch, fetched, errorCount, blockedCount >>
           /\ duplicateCount' =
                duplicateCount + (IF Head(queue).url \in visited THEN 1 ELSE 0)
    ]_vars

\* An entry beyond maxDepth was dropped, and a second entry beyond maxDepth
\* with an already visited URL was counted as a duplicate
C3_Witness ==
  \E d, e \in DOMAIN dequeued :
    /\ dequeued[d].as = "too_deep"
    /\ dequeued[e].as = "duplicate"
    /\ dequeued[e].depth > config.maxDepth
    /\ duplicateCount > 0

\* C4 Termination: with a whole concurrency >= 1 and maxPages >= 1, and every
\* fetch settling, the crawl loop exits, with the frontier empty or the result
\* list at maxPages.
C4_Termination ==
  (/\ pc = "robots"
   /\ IsWhole(config.concurrency) /\ config.concurrency >= Halves(1)
   /\ config.maxPages >= 1)
    ~> (/\ pc = "done"
        /\ Crawling
        /\ queue = <<>> \/ Len(pages) = config.maxPages)

\* A crawl of several batches that ran until the frontier was empty
C4_Witness ==
  /\ pc = "done"
  /\ Crawling
  /\ IsWhole(config.concurrency) /\ config.concurrency >= Halves(1)
  /\ Len(fetched) >= 3
  /\ queue = <<>>
  /\ Len(pages) < config.maxPages

\* C5 as stated: every request with a non-empty start_url is answered.
C5_AlwaysResponds ==
  (pc # "idle" /\ body.start_url.protocol # "") ~> (response # NoResponse)

\* the page fetches in flight: the callbacks awaiting fetchWithTimeout
InFlight == { i \in DOMAIN tasks : tasks[i].at = "fetch" }


\* C6 Batch barrier and concurrency cap, as stated: the fetches in flight never
\* outnumber concurrency (read in the code's favour where none is in flight),
\* and while a batch is unresolved nothing is dequeued, filtered or fetched.
C6_BatchBarrier ==
  [][ /\ InFlight' # {} => Halves(Cardinality(InFlight')) <= config'.concurrency
      /\ (tasks # <<>> /\ tasks' # <<>>) =>
            UNCHANGED << batch, fetched, dequeued, visited, pages >>
    ]_vars

IsPrefix(s, t) == Len(s) <= Len(t) /\ SubSeq(t, 1, Len(s)) = s

\* C7 as stated: while any fetch of the current batch is in flight, no step
\* modifies the frontier or the CanonicalSeenSet.
C7_Original ==
  [][ InFlight # {} => UNCHANGED << queue, canonicalSeen >> ]_vars

\* What the code keeps of C7: the frontier is dequeued and the VisitedSet is
\* modified only between batches.  While a batch is unresolved the frontier
\* only grows at its tail and the CanonicalSeenSet only grows, and each such
\* change is made by one page's callback as it returns success, after that
\* page's own fetch and body have settled (siblings may still be in flight)
\* and before the batch is collected.  Between batches nothing is enqueued and
\* no canonical is recorded.
C7_SharedState ==
  [][ /\ tasks # <<>> =>
            /\ visited' = visited
            /\ IsPrefix(queue, queue')
            /\ canonicalSeen \subseteq canonicalSeen'
            /\ (queue' # queue \/ canonicalSeen' # canonicalSeen) =>
                  \E i \in DOMAIN tasks :
                    /\ tasks[i].at = "text"
                    /\ tasks'[i].at = "done"
                    /\ tasks'[i].pageResult.status = "success"
                    /\ \A j \in DOMAIN tasks \ {i} : tasks'[j] = tasks[j]
      /\ (tasks = <<>> /\ pc # "robots") =>
            /\ canonicalSeen' = canonicalSeen
            /\ queue' = queue \/ (queue # <<>> /\ queue' = Tail(queue))
    ]_vars

\* A page of a batch of two has returned and its links are at the tail of
\* the frontier while its sibling's fetch is still in flight
C7_Witness ==
  /\ pc = "await"
  /\ Len(fetched) = 3
  /\ \E i, j \in DOMAIN tasks :
       /\ tasks[i].at = "fetch"
       /\ tasks[j].at = "done"
       /\ tasks[j].pageResult.status = "success"
       /\ tasks[j].pageResult.internal_links # <<>>
       /\ queue # <<>>
       /\ queue[Len(queue)].depth = batch[j].depth + 1
       /\ \E k \in DOMAIN tasks[j].pageResult.internal_links :
            tasks[j].pageResult.internal_links[k] = queue[Len(queue)].url

\* the robots.txt fetch failed, or parsing it gave no rule for the crawler
FailOpen ==
  \/ site.robots.kind # "ok"
  \/ parseRobotsTxt(site.robots.lines, config.userAgent) = <<>>

\* C8 Robots fail-open: when the robots.txt fetch fails or no rule applies,
\* isAllowed is true for every path, no entry is blocked by robots, and the
\* crawl goes on to the seed: the seed is the first entry dequeued, it passes
\* the robots check, and the crawl returns no error.
C8_RobotsFailOpen ==
  (Crawling /\ FailOpen) =>
    /\ \A p \in QueryPaths \cup {pC, pD, pPage2} : RobotsIsAllowed(robots, p)
    /\ \A i \in DOMAIN Results : Results[i].status # "blocked_robots"
    /\ \A d \in DOMAIN dequeued : dequeued[d].as # "blocked_robots"
    /\ dequeued = <<>> => queue = << [url |-> normalizedStart, depth |-> 0] >>
    /\ dequeued # <<>> =>
         /\ dequeued[1].url = normalizedStart
         /\ dequeued[1].as \in {"batch", "blocked_pattern"}
    /\ pc = "done" => (response.body.error = "" /\ dequeued # <<>>)

\* robots.txt could not be fetched, and the crawl fetched the seed and a page
\* under /admin, which the site's robots.txt would have disallowed
C8_Witness ==
  /\ pc = "done"
  /\ Crawling
  /\ site.robots.kind \in {"http_error", "network_error", "timeout"}
  /\ \E f \in DOMAIN fetched : fetched[f] = normalizedStart
  /\ \E k \in DOMAIN pages : pages[k].url = U(pAdmin) /\ pages[k].status = "fetch_error"

\* the rules whose path is a literal prefix of urlPath
Matching(rules, urlPath) ==
  { i \in DOMAIN rules : StartsWith(urlPath, rules[i].path) }

\* among them, those of maximal path length
Longest(rules, urlPath) ==
  { i \in Matching(rules, urlPath) :
      \A j \in Matching(rules, urlPath) : Len(rules[j].path) <= Len(rules[i].path) }

\* C9 Robots longest-prefix resolution: isAllowed(path) is (type = allow) of the
\* first rule, in collection order, among the rules of maximal path length that
\* are a prefix of the path, and allow when no rule is a prefix of it.
C9_LongestPrefix ==
  pf.called =>
    pf.result =
      IF Matching(pf.rules, pf.urlPath) = {} THEN TRUE
      ELSE \E i \in Longest(pf.rules, pf.urlPath) :
             /\ \A j \in Longest(pf.rules, pf.urlPath) : i <= j
             /\ pf.rules[i].type = "allow"

\* Two rules of the same, maximal length match the path; the first disallows,
\* a later one allows, and isAllowed answered false
C9_Witness ==
  /\ pf.called
  /\ ~pf.result
  /\ \E i, j \in Longest(pf.rules, pf.urlPath) :
       i < j /\ pf.rules[i].type = "disallow" /\ pf.rules[j].type = "allow"
  /\ \E k \in Matching(pf.rules, pf.urlPath) : k \notin Longest(pf.rules, pf.urlPath)

Blocked(status) == status \in {"blocked_robots", "blocked_pattern"}

\* the policy forbids the URL: its path is robots-disallowed or it is
\* pattern-denied
Excluded(url) ==
  \/ ~RobotsIsAllowed(robots, url.pathname)
  \/ shouldDenyUrl(UrlString(url), config.denyPatterns, config.allowPatterns)

\* C10 Policy exclusions: a dequeued entry, within maxDepth and not yet visited,
\* that the policy excludes is never fetched and has exactly one result, with a
\* blocked status; blocked counts the blocked results, in the summary
\* returned too; and errors counts the failed fetches only.
C10_PolicyExclusions ==
  Crawling =>
    /\ \A d \in DOMAIN dequeued :
         (dequeued[d].as \notin {"duplicate", "too_deep"} /\ Excluded(dequeued[d].url)) =>
           /\ Blocked(dequeued[d].as)
           /\ \A f \in DOMAIN fetched : fetched[f] # dequeued[d].url
           /\ Cardinality({ k \in DOMAIN Results : Results[k].url = dequeued[d].url }) = 1
           /\ \E k \in DOMAIN pages :
                pages[k].url = dequeued[d].url /\ pages[k].status = dequeued[d].as
    /\ blockedCount = Cardinality({ k \in DOMAIN Results : Blocked(Results[k].status) })
    /\ errorCount =
         Cardinality({ k \in DOMAIN Results : Results[k].status \in {"http_error", "fetch_error"} })
    /\ pc = "done" =>
         /\ response.body.summary.blocked =
              Cardinality({ k \in DOMAIN response.body.pages :
                             Blocked(response.body.pages[k].status) })
         /\ response.body.summary.errors = errorCount

\* A crawl returned with one entry blocked by robots.txt, one blocked by a
\* pattern and one failed fetch
C10_Witness ==
  /\ pc = "done"
  /\ Crawling
  /\ \E d, e \in DOMAIN dequeued :
       dequeued[d].as = "blocked_robots" /\ dequeued[e].as = "blocked_pattern"
  /\ response.body.summary.blocked = 2
  /\ response.body.summary.errors = 1

\* the PageResults recorded for url
ResultsFor(url) == { k \in DOMAIN Results : Results[k].url = url }

\* the PageResult a failed fetch must leave: status, http_status and error
FailureRecorded(r, res) ==
  CASE r.kind = "timeout" ->
         res.status = "fetch_error" /\ res.error = << "Timeout" >>
    [] r.kind = "network_error" ->
         res.status = "fetch_error" /\ res.error = << "fetch failed" >>
    [] r.kind = "body_error" ->
         res.status = "fetch_error" /\ res.error = << "body failed" >>
    [] r.kind = "http_error" ->
         /\ res.status = "http_error"
         /\ res.http_status = r.status
         /\ res.error = << "HTTP ", r.status >>
    [] OTHER -> res.status \notin {"fetch_error", "http_error"}

\* C11 Per-page errors never abort the crawl: between batches every URL fetched
\* has exactly one PageResult, a failed fetch has the fetch_error / http_error
\* result of its failure, errors counts exactly these results, and the crawl
\* returns only with the frontier empty or the page budget used, with a result
\* that carries no error and the same count in summary.errors.
C11_PageErrors ==
  Crawling =>
    /\ tasks = <<>> =>
         \A f \in DOMAIN fetched : Cardinality(ResultsFor(fetched[f])) = 1
    /\ \A f \in DOMAIN fetched : \A k \in ResultsFor(fetched[f]) :
         FailureRecorded(PageResponse(site.pages, fetched[f]), Results[k])
    /\ errorCount =
         Cardinality({ k \in DOMAIN Results :
                        Results[k].status \in {"fetch_error", "http_error"} })
    /\ pc = "done" =>
         /\ response.status = 200
         /\ response.body.error = ""
         /\ queue = <<>> \/ Len(pages) >= config.maxPages
         /\ response.body.summary.errors =
              Cardinality({ k \in DOMAIN response.body.pages :
                             response.body.pages[k].status \in {"fetch_error", "http_error"} })

\* A crawl that returned after a batch of two, the third batch of the crawl, in
\* which one fetch timed out and its sibling got its own result
C11_Witness ==
  /\ pc = "done"
  /\ Crawling
  /\ config.concurrency = Halves(2)
  /\ \E k \in DOMAIN pages :
       /\ k > 3
       /\ k + 1 <= Len(pages)
       /\ pages[k].status = "fetch_error"
       /\ pages[k].error = << "Timeout" >>
       /\ pages[k + 1].status = "skipped_non_html"
       /\ \E f \in DOMAIN fetched :
            f >= 2 /\ fetched[f - 1] = pages[k].url /\ fetched[f] = pages[k + 1].url
  /\ response.body.summary.errors = 1

\* the dequeues that found their URL already in the VisitedSet
VisitedDuplicates == { d \in DOMAIN dequeued : dequeued[d].as = "duplicate" }

\* the PageResults with status duplicate_canonical
CanonicalDuplicates == { k \in DOMAIN Results : Results[k].status = "duplicate_canonical" }

\* C12 Duplicates counter: duplicates counts the dequeues of an already visited
\* URL plus the duplicate_canonical results, in the summary returned too, and a
\* step that counts a duplicate leaves errors and blocked alone.
C12_DuplicatesCounter ==
  [][ /\ Crawling' =>
            /\ duplicateCount' =
                  Cardinality(VisitedDuplicates') + Cardinality(CanonicalDuplicates')
            /\ pc' = "done" =>
                  response'.body.summary.duplicates =
                    Cardinality(VisitedDuplicates') + Cardinality(CanonicalDuplicates')
      /\ (Crawling /\ (\/ Cardinality(VisitedDuplicates') # Cardinality(VisitedDuplicates)
                        \/ Cardinality(CanonicalDuplicates') # Cardinality(CanonicalDuplicates))) =>
            /\ duplicateCount' = duplicateCount + 1
            /\ UNCHANGED << errorCount, blockedCount >>
    ]_vars

\* A crawl returned having counted one dequeue of a visited URL and one
\* duplicate_canonical page
C12_Witness ==
  /\ pc = "done"
  /\ Crawling
  /\ Cardinality(VisitedDuplicates) >= 1
  /\ Cardinality(CanonicalDuplicates) = 1
  /\ response.body.summary.duplicates = Cardinality(VisitedDuplicates) + 1

-----------------------------------------------------------------------------
(* C13 *)

\* A start_url that is present and is no http(s) URL: a string that does not
\* parse, or one of another scheme
InvalidSeed ==
  /\ pc # "idle"
  /\ body.start_url.protocol # ""
  /\ \/ body.start_url.rel
     \/ body.start_url.protocol = "garbage"
     \/ Lower(body.start_url.protocol) \notin {"http:", "https:"}

\* C13: a request whose start_url cannot be normalized to an http(s) URL is
\* answered at once with the result {error: "Invalid start_url", pages: [],
\* total_pages_crawled: 0}; the crawl never waits for robots.txt, never fills
\* the frontier and never issues a page fetch.
C13_InvalidSeedFailsFast ==
  InvalidSeed =>
    /\ pc = "done"
    /\ response.status = 200
    /\ response.body.error = "Invalid start_url"
    /\ response.body.pages = <<>>
    /\ response.body.total_pages_crawled = 0
    /\ response.body.start_url = body.start_url
    /\ response.body.max_pages = config.maxPages
    /\ robots = NoRobots
    /\ normalizedStart = NULL
    /\ queue = <<>> /\ batch = <<>> /\ tasks = <<>>
    /\ fetched = <<>> /\ dequeued = <<>> /\ pages = <<>>

C13_Witness ==
  /\ InvalidSeed
  /\ body.start_url.protocol = "ftp:"
  /\ body.max_pages = 2
  /\ site.pages = PagesNews
  /\ response.body.error = "Invalid start_url"
  /\ response.body.max_pages = 2

-----------------------------------------------------------------------------
(* C14 *)

\* The callback of batch item i resumes in this step with the body of an HTML
\* page
ProcessesPage(i) ==
  /\ pc = "await"
  /\ tasks[i].at = "text"
  /\ PageResponse(site.pages, batch[i].url).kind = "html"
  /\ pc' = "await"
  /\ tasks'[i].at = "done"

\* the canonical that the page of batch item i declares, or NULL
DeclaredCanonical(i) ==
  extractCanonical(PageResponse(site.pages, batch[i].url), batch[i].url)

\* The step marks the page of item i duplicate_canonical, extracts no link of
\* it and leaves the frontier and the CanonicalSeenSet as they are
MarkedDuplicate(i) ==
  /\ tasks'[i].pageResult.status = "duplicate_canonical"
  /\ tasks'[i].pageResult.internal_links = <<>>
  /\ queue' = queue
  /\ canonicalSeen' = canonicalSeen

\* The claim as stated: every page processed while its declared canonical is
\* in the CanonicalSeenSet is marked duplicate_canonical, its own URL or not
C14_Original ==
  [][ \A i \in DOMAIN tasks :
        (ProcessesPage(i) /\ DeclaredCanonical(i) \in canonicalSeen) => MarkedDuplicate(i)
    ]_vars

\* C14: once a canonical URL C is in the CanonicalSeenSet, every page processed
\* afterwards that declares C its canonical and whose own URL is not C gets
\* status duplicate_canonical and none of its links is extracted or enqueued;
\* the page whose own URL is C is processed as a success, links and all.
C14_CanonicalSeen ==
  [][ \A i \in DOMAIN tasks :
        ProcessesPage(i) =>
          /\ (DeclaredCanonical(i) \in canonicalSeen /\ DeclaredCanonical(i) # batch[i].url)
                => MarkedDuplicate(i)
          /\ (DeclaredCanonical(i) = batch[i].url) =>
                /\ tasks'[i].pageResult.status = "success"
                /\ tasks'[i].pageResult.internal_links =
                     extractInternalLinks(PageResponse(site.pages, batch[i].url),
                                          batch[i].url, origin)
                /\ canonicalSeen' = canonicalSeen \cup {batch[i].url}
    ]_vars

\* /a and /b both declare /c: the crawl returned with /b marked a duplicate of
\* the canonical /a recorded, and /admin, which only /b links to, was never
\* in the frontier
C14_Witness ==
  /\ pc = "done"
  /\ Crawling
  /\ site.pages = PagesCanonical
  /\ U(pC) \in canonicalSeen
  /\ \E k \in DOMAIN pages :
       /\ pages[k].url = U(pB)
       /\ pages[k].status = "duplicate_canonical"
       /\ pages[k].internal_links = <<>>
  /\ \E k \in DOMAIN pages : pages[k].url = U(pA) /\ pages[k].status = "success"
  /\ \A d \in DOMAIN dequeued : dequeued[d].url # U(pAdmin)

-----------------------------------------------------------------------------
(* C15 *)

\* the links of the page of batch item i that are not in the VisitedSet, in
\* document order
NewLinks(i) ==
  SelectSeq(extractInternalLinks(PageResponse(site.pages, batch[i].url), batch[i].url, origin),
            LAMBDA l : l \notin visited)

\* C15: the frontier never holds more than maxQueueSize entries; a page's new
\* links are appended in order while there is room and the rest are dropped,
\* and a step that drops links records no result for them, changes no counter
\* and completes the page's own result as a success with all its links; a
\* callback whose body has arrived can always run, whatever the frontier holds.
C15_FrontierCap ==
  [][ /\ Len(queue) <= maxQueueSize
      /\ Len(queue') <= maxQueueSize
      /\ \A i \in DOMAIN tasks :
           /\ (pc = "await" /\ tasks[i].at = "text") => ENABLED TextSettle(i)
           /\ (ProcessesPage(i) /\ tasks'[i].pageResult.status = "success") =>
                \E new \in {NewLinks(i)} :
                \E kept \in {Min(maxQueueSize - Len(queue), Len(new))} :
                  /\ queue' = queue \o [k \in 1..kept |->
                                          [url |-> new[k], depth |-> batch[i].depth + 1]]
                  /\ kept < Len(new) =>
                       /\ Len(queue') = maxQueueSize
                       /\ UNCHANGED << pages, errorCount, blockedCount, duplicateCount >>
                       /\ \A j \in DOMAIN tasks : j # i => tasks'[j] = tasks[j]
                       /\ tasks'[i].pageResult.internal_links =
                            extractInternalLinks(PageResponse(site.pages, batch[i].url),
                                                 batch[i].url, origin)
    ]_vars

\* The frontier is full and a page has completed as a success with a link
\* that is neither visited nor in the frontier
C15_Witness ==
  /\ pc = "await"
  /\ Len(queue) = maxQueueSize
  /\ \E i \in DOMAIN tasks :
       /\ tasks[i].at = "done"
       /\ tasks[i].pageResult.status = "success"
       /\ \E k \in DOMAIN tasks[i].pageResult.internal_links :
            /\ tasks[i].pageResult.internal_links[k] \notin visited
            /\ \A q \in DOMAIN queue : queue[q].url # tasks[i].pageResult.internal_links[k]

-----------------------------------------------------------------------------
(* C16 *)

\* the URLs of the frontier entries dequeued so far
DequeuedUrls == { dequeued[d].url : d \in DOMAIN dequeued }

\* C16: the VisitedSet is the set of the URLs dequeued so far.  It never
\* shrinks; it grows only in the step that shifts a frontier entry, by that
\* entry's URL; a step that pushes onto the frontier leaves it alone and pushes
\* only URLs that are not in it; every URL whose fetch starts is in it
\* already; and of the entries dequeued with one URL only the first can get
\* past the visited check, so that the URL has one PageResult at most.
C16_VisitedAtDequeue ==
  [][ (Crawling /\ Crawling') =>
        /\ visited = DequeuedUrls
        /\ visited' = DequeuedUrls'
        /\ visited \subseteq visited'
        /\ Len(dequeued') > Len(dequeued) =>
             /\ queue' = Tail(queue)
             /\ visited' = visited \cup {Head(queue).url}
        /\ visited' # visited =>
             /\ Len(dequeued') = Len(dequeued) + 1
             /\ Head(queue).url \notin visited
             /\ dequeued'[Len(dequeued')].as # "duplicate"
        /\ Len(queue') > Len(queue) =>
             /\ visited' = visited
             /\ \A k \in (Len(queue) + 1)..Len(queue') : queue'[k].url \notin visited
        /\ \A f \in (Len(fetched) + 1)..Len(fetched') : fetched'[f] \in visited
        /\ \A d \in DOMAIN dequeued' :
             (\E e \in 1..(d - 1) : dequeued'[e].url = dequeued'[d].url)
                => dequeued'[d].as = "duplicate"
        /\ \A u \in visited' : Cardinality(ResultsFor(u)') <= 1
    ]_vars

\* A crawl returned after the frontier held two entries for one URL: the
\* first dequeued was fetched, the second dropped as a duplicate, and the URL
\* has its one PageResult
C16_Witness ==
  /\ pc = "done"
  /\ Crawling
  /\ \E d \in DOMAIN dequeued : \E e \in 1..(d - 1) :
       /\ dequeued[e].url = dequeued[d].url
       /\ dequeued[e].as = "batch"
       /\ dequeued[d].as = "duplicate"
       /\ dequeued[d].url \in { fetched[f] : f \in DOMAIN fetched }
       /\ Cardinality(ResultsFor(dequeued[d].url)) = 1

-----------------------------------------------------------------------------
(* C17 *)

\* the fetches issued so far for /a, whatever its query
FetchesOfA == { f \in DOMAIN fetched : fetched[f].pathname = pA }

\* C17: in the scenario, /a is fetched once at most, and only as the
\* normalized https://news.example/a, and /admin/secret is never fetched;
\* the crawl returns with total_pages_crawled <= 5, exactly one PageResult
\* for /a, exactly one PageResult for /admin/secret, which has status
\* blocked_robots, and summary.blocked >= 1.
C17_Scenario ==
  /\ Cardinality(FetchesOfA) <= 1
  /\ \A f \in DOMAIN fetched : fetched[f] # U(pAdminSecret)
  /\ pc = "done" =>
       /\ response.status = 200
       /\ response.body.error = ""
       /\ response.body.total_pages_crawled <= 5
       /\ response.body.total_pages_crawled = Len(response.body.pages)
       /\ Cardinality(FetchesOfA) = 1
       /\ \A f \in FetchesOfA : fetched[f] = U(pA)
       /\ Cardinality({ k \in DOMAIN response.body.pages :
                          response.body.pages[k].url.pathname = pA }) = 1
       /\ Cardinality({ k \in DOMAIN response.body.pages :
                          response.body.pages[k].url = U(pA) }) = 1
       /\ Cardinality({ k \in DOMAIN response.body.pages :
                          response.body.pages[k].url = U(pAdminSecret) }) = 1
       /\ \A k \in DOMAIN response.body.pages :
            response.body.pages[k].url = U(pAdminSecret)
              => response.body.pages[k].status = "blocked_robots"
       /\ response.body.summary.blocked >= 1

\* The scenario's crawl returned with its 5 pages: the home page, /a and /b
\* fetched, /admin/secret blocked
C17_Witness ==
  /\ pc = "done"
  /\ body = ScenarioBody
  /\ site.pages = PagesNews
  /\ response.body.total_pages_crawled = 5
  /\ response.body.pages[1].url = U(pRoot)
  /\ response.body.pages[2].url = U(pA) /\ response.body.pages[2].status = "success"
  /\ response.body.pages[3].url = U(pB)
  /\ response.body.pages[4].url = U(pAdminSecret)
  /\ response.body.pages[4].status = "blocked_robots"
  /\ response.body.summary.blocked = 1

-----------------------------------------------------------------------------
(* C18 *)

\* the URL tested matches some pattern of the list
MatchesSome(patterns) ==
  \E i \in DOMAIN patterns : RegExpTest(patterns[i], pf.urlString)

\* C18: shouldDenyUrl returns true exactly when the allow list is non-empty
\* and the URL matches none of it, or the URL matches a caller deny pattern,
\* or it matches a built-in deny pattern; so a URL outside a non-empty allow
\* list is denied whatever the deny lists say, and a URL that matches an
\* allow pattern and a deny pattern is denied.
C18_FilterDecision ==
  pf.called =>
    /\ pf.result = (\/ (pf.allowPatterns # <<>> /\ ~MatchesSome(pf.allowPatterns))
                    \/ MatchesSome(pf.denyPatterns)
                    \/ DEFAULT_DENY_PATTERNS(pf.urlString))
    /\ (pf.allowPatterns # <<>> /\ ~MatchesSome(pf.allowPatterns)) => pf.result
    /\ (MatchesSome(pf.allowPatterns) /\ MatchesSome(pf.denyPatterns)) => pf.result
    /\ (MatchesSome(pf.allowPatterns) /\ DEFAULT_DENY_PATTERNS(pf.urlString)) => pf.result
    /\ (pf.allowPatterns = <<>> /\ pf.denyPatterns = <<>>)
          => pf.result = DEFAULT_DENY_PATTERNS(pf.urlString)

\* https://news.example/admin/secret with the allow list ["/admin"] and no
\* caller deny pattern: allowed by the list, denied by the built-in admin rule
C18_Witness ==
  /\ pf.called
  /\ pf.urlString = UrlString(U(pAdminSecret))
  /\ pf.allowPatterns = << Pattern(FALSE, pAdmin) >>
  /\ pf.denyPatterns = <<>>
  /\ MatchesSome(pf.allowPatterns)
  /\ pf.result

-----------------------------------------------------------------------------
(* C19 *)

\* C19: normalizing the result of normalizeUrl again, against the same base,
\* gives the same result, for every href that normalizeUrl does not reject.
C19_Idempotent ==
  (pf.called /\ pf.once # NULL) => pf.twice = pf.once

\* An href that every step of normalizeUrl changes: upper-case scheme and
\* host, default port, two runs of slashes, a tracking parameter ahead of
\* two others out of order, and a fragment
C19_Witness ==
  /\ pf.called
  /\ pf.raw = Abs("HTTPS:", "NEWS.EXAMPLE", "443", pABDouble,
                  << [k |-> "id", v |-> "x"], [k |-> "b", v |-> "2"] >>, "top")
  /\ pf.once = Url("https:", "news.example", "", << "/", "a", "/", "b" >>,
                   << [k |-> "b", v |-> "2"], [k |-> "id", v |-> "x"] >>, "")
  /\ pf.twice = pf.once

-----------------------------------------------------------------------------
(* C20 *)

\* C20: whatever the options of the body, the config the handler passes to
\* crawl() has 1 <= maxPages <= 2000, concurrency <= 10 and timeout <= 30000;
\* an absent option gets its default (50, 3, 15000), and a max_pages, a
\* concurrency or a timeout within the limits is passed as it is.
C20_OptionClamping ==
  (pc # "idle" /\ config # NoConfig) =>
    /\ config.maxPages >= 1 /\ config.maxPages <= 2000
    /\ body.max_pages = 0 => config.maxPages = 50
    /\ body.max_pages \in 1..2000 => config.maxPages = body.max_pages
    /\ config.concurrency <= Halves(10)
    /\ body.concurrency = 0 => config.concurrency = Halves(3)
    /\ (body.concurrency \in 1..Halves(10)) => config.concurrency = body.concurrency
    /\ config.timeout <= 30000
    /\ body.timeout = 0 => config.timeout = 15000
    /\ body.timeout \in 1..30000 => config.timeout = body.timeout

\* A request with every option above its limit was passed on with the limits
C20_Witness ==
  /\ pc = "robots"
  /\ body.max_pages = 2001 /\ config.maxPages = 2000
  /\ body.concurrency = Halves(11) /\ config.concurrency = Halves(10)
  /\ body.timeout = 30001 /\ config.timeout = 30000

-----------------------------------------------------------------------------
(* C21 *)

\* what each check, taken alone, says of a frontier entry
IsVisited(item) == item.url \in visited
IsTooDeep(item) == item.depth > config.maxDepth
IsDisallowed(item) == ~RobotsIsAllowed(robots, item.url.pathname)
IsDenied(item) ==
  shouldDenyUrl(UrlString(item.url), config.denyPatterns, config.allowPatterns)

\* C21: the step that dequeues an entry decides by the first of the checks
\* visited, depth, robots, pattern that fails: a visited entry is a duplicate
\* whatever else holds; an unvisited entry beyond maxDepth gets no PageResult
\* and no blocked count, disallowed and denied or not; an unvisited entry
\* within maxDepth that robots.txt disallows is recorded blocked_robots,
\* pattern-denied or not; only then does the pattern decide.
C21_CheckOrder ==
  [][ (Crawling /\ Len(dequeued') = Len(dequeued) + 1) =>
        \E item \in {Head(queue)}, d \in {dequeued'[Len(dequeued')]} :
          /\ d.url = item.url /\ d.depth = item.depth
          /\ IsVisited(item) => d.as = "duplicate"
          /\ (~IsVisited(item) /\ IsTooDeep(item)) =>
               /\ d.as = "too_deep"
               /\ UNCHANGED << pages, blockedCount, duplicateCount, errorCount, batch >>
          /\ (~IsVisited(item) /\ ~IsTooDeep(item) /\ IsDisallowed(item)) =>
               /\ d.as = "blocked_robots"
               /\ pages' = Append(pages, PageResult(item.url, "blocked_robots", 0, <<>>,
                                                    item.depth, <<>>))
               /\ blockedCount' = blockedCount + 1
               /\ batch' = batch
          /\ (~IsVisited(item) /\ ~IsTooDeep(item) /\ ~IsDisallowed(item) /\ IsDenied(item)) =>
               /\ d.as = "blocked_pattern"
               /\ pages' = Append(pages, PageResult(item.url, "blocked_pattern", 0, <<>>,
                                                    item.depth, <<>>))
               /\ blockedCount' = blockedCount + 1
               /\ batch' = batch
          /\ (~IsVisited(item) /\ ~IsTooDeep(item) /\ ~IsDisallowed(item) /\ ~IsDenied(item)) =>
               /\ d.as = "batch"
               /\ batch' = Append(batch, item)
               /\ UNCHANGED << pages, blockedCount >>
    ]_vars

\* A crawl returned having recorded /admin/secret, which fails both the
\* robots and the pattern check, as blocked_robots, and having dropped an
\* entry beyond maxDepth that the built-in patterns deny without any result
C21_Witness ==
  /\ pc = "done"
  /\ Crawling
  /\ config.denyPatterns = <<>>
  /\ \E d \in DOMAIN dequeued :
       /\ dequeued[d].as = "too_deep"
       /\ shouldDenyUrl(UrlString(dequeued[d].url), <<>>, <<>>)
       /\ ResultsFor(dequeued[d].url) = {}
  /\ \E d \in DOMAIN dequeued :
       /\ dequeued[d].as = "blocked_robots"
       /\ shouldDenyUrl(UrlString(dequeued[d].url), <<>>, <<>>)
       /\ \E k \in DOMAIN pages :
            pages[k].url = dequeued[d].url /\ pages[k].status = "blocked_robots"

-----------------------------------------------------------------------------
(* C22 *)

TerminalStatuses ==
  { "success", "http_error", "fetch_error", "skipped_non_html", "duplicate_canonical",
    "blocked_robots", "blocked_pattern" }

\* the entries dequeued so far that went into a fetch batch
Batched == { d \in DOMAIN dequeued : dequeued[d].as = "batch" }

\* C22: every PageResult in pages has one of the seven terminal statuses
\* ('pending' is none of them); pages only grows at its end, so a PageResult
\* appended is never changed or removed; the step that collects a batch
\* appends one PageResult per batch entry, in batch order, with the entry's URL
\* and depth; and when the crawl returns every entry that went into a batch
\* has exactly one PageResult in the result list.
C22_TerminalStatuses ==
  [][ (Crawling /\ Crawling') =>
        /\ \A k \in DOMAIN pages' : pages'[k].status \in TerminalStatuses
        /\ IsPrefix(pages, pages')
        /\ (pc = "await" /\ pc' # "await") =>
             /\ Len(pages') = Len(pages) + Len(batch)
             /\ \A i \in DOMAIN batch :
                  /\ pages'[Len(pages) + i] = tasks[i].pageResult
                  /\ pages'[Len(pages) + i].url = batch[i].url
                  /\ pages'[Len(pages) + i].depth = batch[i].depth
        /\ pc' = "done" =>
             /\ response'.body.pages = pages'
             /\ \A d \in Batched' :
                  Cardinality({ k \in DOMAIN response'.body.pages :
                                  response'.body.pages[k].url = dequeued'[d].url }) = 1
    ]_vars

\* A crawl returned with results of six of the terminal statuses, collected
\* from batches of two
C22_Witness ==
  /\ pc = "done"
  /\ Crawling
  /\ config.concurrency = Halves(2)
  /\ Cardinality(Batched) >= 4
  /\ { "success", "duplicate_canonical", "fetch_error", "skipped_non_html" }
        \subseteq { pages[k].status : k \in DOMAIN pages }
  /\ Len(response.body.pages) >= Cardinality(Batched)

-----------------------------------------------------------------------------
(* C23 *)

\* the callbacks that return in this step
Returning == { i \in DOMAIN tasks : tasks[i].at # "done" /\ i \in DOMAIN tasks'
                                     /\ tasks'[i].at = "done" }

Links(seq) == { seq[k] : k \in DOMAIN seq }

QueueUrls == { queue[k].url : k \in DOMAIN queue }

\* C23: while a crawl runs, a callback that returns with any status but
\* success leaves queue and canonicalSeen as they were; a dequeued entry that
\* is blocked by robots.txt or by a pattern only leaves the queue; and a step
\* that pushes onto the queue or adds to canonicalSeen is the return of one
\* callback with status success: what is pushed are links of that page one
\* level deeper, what is added is the canonical that page declares.
C23_OnlySuccessGrows ==
  [][ (Crawling /\ Crawling') =>
        /\ \A i \in Returning :
             tasks'[i].pageResult.status # "success" =>
               UNCHANGED << queue, canonicalSeen >>
        /\ Len(dequeued') = Len(dequeued) + 1 =>
             /\ queue' = Tail(queue)
             /\ canonicalSeen' = canonicalSeen
        /\ (canonicalSeen' # canonicalSeen
              \/ (queue' # queue /\ (queue = <<>> \/ queue' # Tail(queue)))) =>
             \E i \in Returning :
               /\ Returning = {i}
               /\ tasks'[i].pageResult.status = "success"
               /\ IsPrefix(queue, queue')
               /\ \A k \in (DOMAIN queue') \ (DOMAIN queue) :
                    /\ queue'[k].url \in Links(tasks'[i].pageResult.internal_links)
                    /\ queue'[k].depth = batch[i].depth + 1
               /\ canonicalSeen \subseteq canonicalSeen'
               /\ canonicalSeen' \ canonicalSeen \subseteq
                    { extractCanonical(PageResponse(site.pages, batch[i].url), batch[i].url) }
    ]_vars

\* A crawl is over in which a duplicate_canonical page links to a URL that was
\* never visited, and other pages ended fetch_error, http_error or
\* skipped_non_html
C23_Witness ==
  /\ pc = "done"
  /\ Crawling
  /\ \E k \in DOMAIN pages :
       /\ pages[k].status = "duplicate_canonical"
       /\ \E l \in Links(extractInternalLinks(PageResponse(site.pages, pages[k].url),
                                               pages[k].url, origin)) :
            l \notin visited \cup QueueUrls
  /\ { "fetch_error", "skipped_non_html", "success" }
        \subseteq { pages[k].status : k \in DOMAIN pages }

-----------------------------------------------------------------------------
(* C24 *)

\* every entry pushed onto the queue so far, in the order of the pushes
\* (the queue is first in, first out)
Created ==
  [k \in 1..Len(dequeued) |-> [url |-> dequeued[k].url, depth |-> dequeued[k].depth]]
    \o queue

\* some success result of depth k - 1 lists url among its internal_links
LinkedFromAbove(url, k) ==
  \E r \in DOMAIN Results :
    /\ Results[r].status = "success"
    /\ Results[r].depth = k - 1
    /\ url \in Links(Results[r].internal_links)

\* C24: while a crawl runs and after it, the first entry ever pushed is the
\* seed at depth 0 and no other entry has depth 0; every other entry pushed
\* has a depth k > 0 and its URL is among the links of a success result of
\* depth k - 1; and so is the URL of every PageResult of depth k > 0.
C24_DepthAssignment ==
  Crawling =>
    /\ Len(Created) >= 1
    /\ Created[1] = [url |-> normalizedStart, depth |-> 0]
    /\ \A k \in 2..Len(Created) :
         /\ Created[k].depth > 0
         /\ LinkedFromAbove(Created[k].url, Created[k].depth)
    /\ \A r \in DOMAIN Results :
         /\ Results[r].depth >= 0
         /\ Results[r].depth = 0 => Results[r].url = normalizedStart
         /\ Results[r].depth > 0 => LinkedFromAbove(Results[r].url, Results[r].depth)

\* A crawl is over with results at depths 0, 1 and 2, one of depth 2 being a
\* failure, and with an entry of depth 3 still in the queue or dropped
C24_Witness ==
  /\ pc = "done"
  /\ Crawling
  /\ {0, 1, 2} \subseteq { pages[k].depth : k \in DOMAIN pages }
  /\ \E k \in DOMAIN pages : pages[k].depth = 2 /\ pages[k].status # "success"
  /\ \E k \in DOMAIN Created : Created[k].depth = 3

-----------------------------------------------------------------------------
(* C25 *)

\* the URLs the crawl holds or has handled: queue, visited, results, the
\* internal_links of the results, and the page fetches issued
CrawlUrls ==
  QueueUrls \cup visited
    \cup { Results[k].url : k \in DOMAIN Results }
    \cup UNION { Links(Results[k].internal_links) : k \in DOMAIN Results }
    \cup { dequeued[k].url : k \in DOMAIN dequeued }
    \cup { batch[k].url : k \in DOMAIN batch }
    \cup Links(fetched)

\* C25: while a crawl runs and after it, origin is the origin of the
\* normalized seed, and every URL in the queue, in visited, in a result, in a
\* batch or fetched is one that normalizeUrl returns unchanged and has that
\* origin.
C25_SameOriginNormalized ==
  Crawling =>
    /\ origin = Origin(normalizedStart)
    /\ normalizedStart = normalizeUrl(body.start_url, body.start_url)
    /\ \A u \in CrawlUrls :
         /\ normalizeUrl(AsRaw(u), AsRaw(u)) = u
         /\ Origin(u) = origin

\* A crawl whose seed was written in capitals with the default port is over;
\* it fetched a page that holds an absolute link to another origin
C25_Witness ==
  /\ pc = "done"
  /\ Crawling
  /\ body.start_url.protocol = "HTTPS:"
  /\ U(pB) \in Links(fetched)
  /\ \E u \in Links(fetched) :
       \E j \in DOMAIN PageResponse(site.pages, u).hrefs :
         \E h \in {PageResponse(site.pages, u).hrefs[j]} :
           /\ ~h.rel
           /\ h.hash = ""
           /\ normalizeUrl(h, AsRaw(u)) # NULL
           /\ Origin(normalizeUrl(h, AsRaw(u))) # origin

-----------------------------------------------------------------------------
(* parseRobotsTxt on its own: every robots.txt of up to MaxLines lines drawn  *)
(* from RobotsLines, parsed for the crawler's default agent, for the          *)
(* parser's default agent '*' and for Googlebot                               *)

MaxLines == 5

RobotsLines ==
  { RobotsLine("User-agent:", << "*" >>),
    RobotsLine("User-agent:", << "SEO-Crawler" >>),
    RobotsLine("User-agent:", << "Googlebot" >>),
    RobotsLine("Disallow:", pAdmin),
    RobotsLine("Disallow:", <<>>),
    RobotsLine("Allow:", pA),
    RobotsLine("", <<>>) }

RobotsFiles == UNION { [1..n -> RobotsLines] : n \in 0..MaxLines }

CallerAgents == { DefaultUserAgent, << "*" >>, << "Googlebot" >> }

InitRobots ==
  /\ Idle
  /\ pf \in [lines : RobotsFiles, userAgent : CallerAgents, called : {FALSE},
              rules : {<<>>}]

\* const isAllowed = parseRobotsTxt(robotsTxt, userAgent)
CallParseRobotsTxt ==
  /\ ~pf.called
  /\ pf' = [pf EXCEPT !.called = TRUE,
                      !.rules = parseRobotsTxt(pf.lines, pf.userAgent)]
  /\ UNCHANGED << body, site, pc, config, normalizedStart, origin, robots, visited,
                  canonicalSeen, queue, pages, errorCount, blockedCount,
                  duplicateCount, batch, tasks, response, fetched, dequeued >>

NextRobots == CallParseRobotsTxt

SpecRobots == InitRobots /\ [][NextRobots]_vars

-----------------------------------------------------------------------------
(* C26 *)

IsUserAgentLine(line) == Lower(line.field) = "user-agent:"

IsDirective(line) == Lower(line.field) \in {"disallow:", "allow:"}

\* the agent of a User-agent line applies to the caller: it is '*', the
\* caller's agent but for case, or part of the caller's agent
Applicable(agent, userAgent) ==
  \/ ToLowerCase(agent) = << "*" >>
  \/ ToLowerCase(agent) = ToLowerCase(userAgent)
  \/ Includes(ToLowerCase(userAgent), ToLowerCase(agent))

\* the directive lines with a path whose nearest User-agent line above applies
Collected(lines, userAgent) ==
  { i \in DOMAIN lines :
      /\ IsDirective(lines[i])
      /\ lines[i].value # <<>>
      /\ \E j \in 1..(i - 1) :
           /\ IsUserAgentLine(lines[j])
           /\ \A k \in (j + 1)..(i - 1) : ~IsUserAgentLine(lines[k])
           /\ Applicable(lines[j].value, userAgent) }

\* C26: the rule list of parseRobotsTxt is, in file order, one rule per
\* Disallow/Allow line that has a non-empty path and whose most recent
\* User-agent line above it names an applicable agent; the rule has the
\* line's type and path.  No other line gives a rule: none above the first
\* User-agent line, none with an empty path, none under an agent that does
\* not apply.
C26_SectionParsing ==
  pf.called =>
    \E c \in {Collected(pf.lines, pf.userAgent)} :
      /\ Len(pf.rules) = Cardinality(c)
      /\ \A i \in c :
           \E n \in {Cardinality({ j \in c : j <= i })} :
             /\ pf.rules[n].path = pf.lines[i].value
             /\ pf.rules[n].type =
                  (IF Lower(pf.lines[i].field) = "disallow:" THEN "disallow" ELSE "allow")

\* robots.txt of five lines parsed for the crawler's default agent: a Disallow
\* above the first User-agent line, a section for SEO-Crawler with an Allow,
\* and a section for Googlebot with a Disallow; the Allow is the only rule
C26_Witness ==
  /\ pf.called
  /\ pf.userAgent = DefaultUserAgent
  /\ pf.lines = << RobotsLine("Disallow:", pAdmin),
                    RobotsLine("User-agent:", << "SEO-Crawler" >>),
                    RobotsLine("Allow:", pA),
                    RobotsLine("User-agent:", << "Googlebot" >>),
                    RobotsLine("Disallow:", pAdmin) >>
  /\ pf.rules = << [type |-> "allow", path |-> pA] >>

-----------------------------------------------------------------------------
(* A site whose batches hold pages of two depths: the home page links to /a,  *)
(* /b and /c; /a links to /d; /c links to /e; /d links to /e and /f; /e and   *)
(* /f declare /b as their canonical and link to /g, which is not served.      *)
(* The same request is posted twice, so that the two crawls can be compared.  *)

pE == << "/", "e" >>
pF == << "/", "f" >>
pG == << "/", "g" >>

PagesRace ==
  ( U(pRoot) :> Html(<< Rel(pA, <<>>, ""), Rel(pB, <<>>, ""), Rel(pC, <<>>, "") >>, 0)
  @@ U(pA) :> Html(<< Rel(pD, <<>>, "") >>, 0)
  @@ U(pB) :> Html(<< Rel(pRoot, <<>>, "") >>, 0)
  @@ U(pC) :> Html(<< Rel(pE, <<>>, "") >>, 0)
  @@ U(pD) :> Html(<< Rel(pE, <<>>, ""), Rel(pF, <<>>, "") >>, 0)
  @@ U(pE) :> Html(<< Rel(pB, <<>>, ""), Rel(pG, <<>>, "") >>, 1)
  @@ U(pF) :> Html(<< Rel(pB, <<>>, ""), Rel(pG, <<>>, "") >>, 1) )

RaceSite == [robots |-> [kind |-> "http_error", lines |-> <<>>], pages |-> PagesRace]

RaceBodies ==
  [ start_url : { Abs("https:", "news.example", "", pRoot, <<>>, "") },
    max_pages : { 0 },
    max_depth : { 2, 3 },
    concurrency : { Halves(n) : n \in 1..3 },
    timeout : { 0 },
    deny_patterns : { <<>> },
    allow_patterns : { <<>> } ]

\* what the caller sees of a finished crawl: the (url, status) pairs of its
\* pages and the counters of its summary
Outcome ==
  [ results |-> { << pages[k].url, pages[k].status >> : k \in DOMAIN pages },
    errors |-> errorCount, blocked |-> blockedCount, duplicates |-> duplicateCount ]

\* crawl(config) at its first await, the one in loadRobotsTxt, for the first
\* of the two requests
InitRace ==
  /\ body \in RaceBodies
  /\ site = RaceSite
  /\ config = BuildConfig(body)
  /\ normalizedStart = normalizeUrl(body.start_url, body.start_url)
  /\ origin = Origin(normalizedStart)
  /\ pc = "robots"
  /\ robots = NoRobots
  /\ visited = {}
  /\ canonicalSeen = {}
  /\ queue = <<>>
  /\ pages = <<>>
  /\ errorCount = 0
  /\ blockedCount = 0
  /\ duplicateCount = 0
  /\ batch = <<>>
  /\ tasks = <<>>
  /\ response = NoResponse
  /\ fetched = <<>>
  /\ dequeued = <<>>
  /\ pf = [posted |-> 1, first |-> [results |-> {}, errors |-> 0, blocked |-> 0,
                                    duplicates |-> 0]]

\* the same body is posted again after the first response: the handler calls
\* crawl() anew, with fresh visited, canonicalSeen, queue, pages and counters
Repost ==
  /\ pc = "done"
  /\ pf.posted = 1
  /\ pf' = [posted |-> 2, first |-> Outcome]
  /\ pc' = "robots"
  /\ robots' = NoRobots
  /\ visited' = {}
  /\ canonicalSeen' = {}
  /\ queue' = <<>>
  /\ pages' = <<>>
  /\ errorCount' = 0
  /\ blockedCount' = 0
  /\ duplicateCount' = 0
  /\ batch' = <<>>
  /\ tasks' = <<>>
  /\ response' = NoResponse
  /\ fetched' = <<>>
  /\ dequeued' = <<>>
  /\ UNCHANGED << body, site, config, normalizedStart, origin >>

NextRace ==
  \/ RobotsSettle
  \/ OuterTest
  \/ InnerStep
  \/ InnerExit
  \/ \E i \in DOMAIN tasks : FetchSettle(i)
  \/ \E i \in DOMAIN tasks : TextSettle(i)
  \/ Collect
  \/ Repost

SpecRace == InitRace /\ [][NextRace]_vars

-----------------------------------------------------------------------------
(* C27 *)

\* C27: the entries are dequeued in non-decreasing depth order: no entry is
\* dequeued after an entry of greater depth, whatever the concurrency and the
\* order in which the callbacks of a batch resume.
C27_BreadthFirst ==
  Crawling =>
    \A i, j \in DOMAIN dequeued :
      i < j => dequeued[i].depth <= dequeued[j].depth

-----------------------------------------------------------------------------
(* C28 *)

\* crawl() has returned because the queue ran empty, with page budget left
EndedOnEmptyFrontier ==
  /\ pc = "done"
  /\ Crawling
  /\ queue = <<>>
  /\ Len(pages) < config.maxPages

\* C28: when the crawl has ended on an empty queue, every URL that was in the
\* queue at some depth <= maxDepth has exactly one PageResult; none was lost
\* to a deeper copy of it that was dequeued first.
C28_Coverage ==
  EndedOnEmptyFrontier =>
    \A k \in DOMAIN dequeued :
      dequeued[k].depth <= config.maxDepth =>
        Cardinality({ r \in DOMAIN pages : pages[r].url = dequeued[k].url }) = 1

-----------------------------------------------------------------------------
(* C29 *)

\* C29: the same request on the same site gives the same (url, status) pairs
\* and the same errors, blocked and duplicates counters, whatever the order in
\* which the fetches of a batch complete: the second crawl of a request ends
\* with the outcome of the first.
C29_Deterministic ==
  (pc = "done" /\ pf.posted = 2) => Outcome = pf.first

\* The second crawl of a request with batches of two has ended with the
\* outcome of the first, /e crawled in both
C29_Witness ==
  /\ pc = "done"
  /\ pf.posted = 2
  /\ config.concurrency = Halves(2)
  /\ Outcome = pf.first
  /\ << U(pE), "success" >> \in Outcome.results

-----------------------------------------------------------------------------
(* C30 *)

\* a page with this URL has come out a success
ProcessedSuccess(url) ==
  \E k \in DOMAIN Results : Results[k].url = url /\ Results[k].status = "success"

\* the canonicals declared by the pages that have come out a success
DeclaredBySuccess ==
  { extractCanonical(PageResponse(site.pages, Results[k].url), Results[k].url) :
      k \in { j \in DOMAIN Results : Results[j].status = "success" } } \ {NULL}

\* The step processes the page of item i as a success: its links are
\* extracted, the ones not visited are pushed at depth + 1, its canonical c is
\* recorded
ProcessedAsFirst(i, c) ==
  \E links \in {extractInternalLinks(PageResponse(site.pages, batch[i].url),
                                      batch[i].url, origin)} :
    /\ tasks'[i].pageResult.status = "success"
    /\ tasks'[i].pageResult.internal_links = links
    /\ IsPrefix(queue, queue')
    /\ { queue'[k] : k \in (DOMAIN queue') \ (DOMAIN queue) } =
         { [url |-> l, depth |-> batch[i].depth + 1] : l \in Links(links) \ visited }
    /\ canonicalSeen' = canonicalSeen \cup {c}

=============================================================================
